---- MODULE Spec2Model ----
(***************************************************************************)
(* Conversational command-resolution core of the voice appointment system: *)
(* processVoiceCommand (one turn), getOrCreateAssistant, getOrCreateThread *)
(* and the tool dispatch of handleFunctionCall, with the remote assistant  *)
(* service and the document store as nondeterministic collaborators.       *)
(***************************************************************************)
EXTENDS Integers, Sequences, FiniteSets, TLC

\* ------------------------------------------------------------------------
\* Bounds of the model
\* ------------------------------------------------------------------------
\* largest number of tool calls in one requires_action batch
MaxBatch == 2
\* time in ms one remote call takes on the slow network of the model
SlowCall == 29000

Users == {"alice", "bob"}

\* ------------------------------------------------------------------------
\* Program constants
\* ------------------------------------------------------------------------
maxPollingTime == 60000
pollingInterval == 1000
extendedTimeout == 90000
ExpectedModel == "gpt-4o-mini"
Models == {"gpt-4o-mini", "gpt-4o"}
NoModel == "none"

\* ------------------------------------------------------------------------
\* Error texts, as sequences of characters (String.prototype.includes is
\* computed on them)
\* ------------------------------------------------------------------------
\* the Error text thrown when the initial polling phase exceeds its bound
TextRunTimedOut ==
    <<"A","s","s","i","s","t","a","n","t"," ","r","u","n"," ","t","i","m","e","d"," ","o","u","t">>
\* the Error text thrown when the post-tool-call polling phase exceeds its bound
TextRunTimedOutAfterCalls ==
    <<"A","s","s","i","s","t","a","n","t"," ","r","u","n"," ","t","i","m","e","d"," ","o","u","t"," ","a","f","t","e","r"," ","f","u","n","c","t","i","o","n"," ","c","a","l","l","s">>
\* the remote service's rejection of an append while a run is active
TextActiveRun ==
    <<"C","a","n","'","t"," ","a","d","d"," ","m","e","s","s","a","g","e","s"," ","t","o"," ","t","h","r","e","a","d"," ","w","h","i","l","e"," ","a"," ","r","u","n"," ","i","s"," ","a","c","t","i","v","e",".">>
\* a remote or storage call that failed for another reason
TextConnection ==
    <<"C","o","n","n","e","c","t","i","o","n"," ","e","r","r","o","r",".">>
\* the SyntaxError text of JSON.parse
TextJSON ==
    <<"U","n","e","x","p","e","c","t","e","d"," ","e","n","d"," ","o","f"," ","J","S","O","N"," ","i","n","p","u","t">>
\* the Error text thrown after a new assistant reported another model
TextWrongModel ==
    <<"A","s","s","i","s","t","a","n","t"," ","c","r","e","a","t","e","d"," ","w","i","t","h"," ","w","r","o","n","g"," ","m","o","d","e","l","."," ","D","e","l","e","t","e","d"," ","t","o"," ","p","r","e","v","e","n","t"," ","h","i","g","h"," ","c","o","s","t","s",".">>
\* the prefix getOrCreateAssistant puts before a rethrown error text
PrefixGetAssistant ==
    <<"F","a","i","l","e","d"," ","t","o"," ","g","e","t"," ","a","s","s","i","s","t","a","n","t",":"," ">>
\* the prefix getOrCreateThread puts before a rethrown error text
PrefixThread ==
    <<"F","a","i","l","e","d"," ","t","o"," ","m","a","n","a","g","e"," ","c","o","n","v","e","r","s","a","t","i","o","n"," ","t","h","r","e","a","d",":"," ">>
\* the pattern the turn's catch looks for to pick the timeout message
PatTimeout ==
    <<"t","i","m","e","o","u","t">>
\* the pattern the turn's catch looks for to pick the configuration message
PatApiKey ==
    <<"A","P","I"," ","k","e","y">>
\* first pattern of the active-run test
PatWhileARun ==
    <<"w","h","i","l","e"," ","a"," ","r","u","n">>
\* second pattern of the active-run test
PatIsActive ==
    <<"i","s"," ","a","c","t","i","v","e">>

\* s.includes(p): p occurs in s as a contiguous subsequence
Includes(s, p) ==
    \E i \in 0..(Len(s) - Len(p)) :
        \A j \in 1..Len(p) : s[i + j] = p[j]

\* The text of the Error a failure tag stands for (the state keeps the tag)
ErrText(tag) ==
    CASE tag = "timeout1" -> TextRunTimedOut
      [] tag = "timeout2" -> TextRunTimedOutAfterCalls
      [] tag = "activeRun" -> TextActiveRun
      [] tag = "conn" -> TextConnection
      [] tag = "json" -> TextJSON
      [] tag = "assistant:conn" -> PrefixGetAssistant \o TextConnection
      [] tag = "assistant:wrongModel" -> PrefixGetAssistant \o TextWrongModel
      [] tag = "thread:conn" -> PrefixThread \o TextConnection
      [] OTHER -> <<>>

\* The three user-facing messages of the turn's catch and the two of its
\* normal failure returns
MsgTakingLonger == "The request is taking longer than usual. Please try again."
MsgConfiguration == "There's a configuration issue. Please contact support."
MsgError == "I encountered an error while processing your request. Please try again."
MsgFallback == "I couldn't process your request right now. Please try again."
MsgAssistantReply == "<text of the assistant's last message>"

\* ------------------------------------------------------------------------
\* State
\* ------------------------------------------------------------------------
VARIABLES
    configDoc,    \* document config/assistant: the stored AssistantIdentity
    remoteAssts,  \* the remote service's assistants, by id
    threads,      \* the remote service's threads, by id, with their messages
    runs,         \* the remote service's runs, by id
    userDoc,      \* users/{userId}: activeThreadId, previousThreadId
    pending,      \* inbound requests each user has still to send
    env,          \* the environment of this behaviour: latency (ms one remote
                  \* call takes), maxCalls (most tool calls the remote assistant
                  \* puts in one batch), faults (may a remote or storage call
                  \* fail for a reason outside the stores' state)
    turn,         \* locals of each user's turn of processVoiceCommand
    touched,      \* which turn's user read or wrote which object
    appointments, \* users/{userId}/appointments of the calling user, in
                  \* creation order
    partialAppointments, \* users/{userId}/partialAppointments/current
    calendar,     \* the events of the user's primary external calendar
    pendingOperations, \* users/{userId}/pendingOperations/currentCancellation
    settings,     \* users/{userId}/settings/availability
    request,      \* what the request of the turn carries for the tool
                  \* handlers: was a calendar access token supplied
    tool          \* the tool handler in progress or last returned: its
                  \* locals, its result, and the stores as the call found them

toolVars == <<appointments, partialAppointments, calendar, pendingOperations, settings,
              request, tool>>

vars == <<configDoc, remoteAssts, threads, runs, userDoc, pending, env, turn, touched,
          appointments, partialAppointments, calendar, pendingOperations, settings,
          request, tool>>

\* a store that keys every user's documents by the same id
UserIdxShared(u) == 1

UserIdx(u) == IF u = "alice" THEN 1 ELSE 2

\* Run statuses of the remote service
LoopStatuses == {"queued", "in_progress"}
ListedActive == {"queued", "in_progress", "requires_action"}
BlockingStatuses == {"queued", "in_progress", "requires_action", "cancelling"}
RunStatuses == {"queued", "in_progress", "requires_action", "cancelling",
                "cancelled", "failed", "completed", "expired"}

\* What the remote service may report for a run last seen in status s
NextStatuses(s) ==
    CASE s \in LoopStatuses ->
             {"queued", "in_progress", "requires_action", "completed", "failed", "expired"}
      [] s = "requires_action" -> {"requires_action", "expired"}
      [] s = "cancelling" -> {"cancelling", "cancelled"}
      [] OTHER -> {s}

\* ------------------------------------------------------------------------
\* Tool calls
\* ------------------------------------------------------------------------
ArgsValid == "{\"start_date\":\"2025-07-25\"}"
ArgsTruncated == "{\"start_date\":"
ToolCatalog == {"track_partial_appointment", "preview_appointments_for_cancellation",
                "schedule_appointment", "create_personal_event", "cancel_appointment",
                "cancel_all_appointments_for_date", "get_appointments", "set_availability"}
UnknownTool == "send_email"

\* JSON.parse of a tool call's arguments: the parsed value, or a SyntaxError
JSONParse(s) ==
    IF s = ArgsValid
    THEN [ok |-> TRUE, value |-> [start_date |-> "2025-07-25"]]
    ELSE [ok |-> FALSE, value |-> [start_date |-> ""]]

\* The shapes of tool call the remote assistant issues in the model
CallShapes ==
    { [name |-> "get_appointments", arguments |-> ArgsValid],
      [name |-> UnknownTool, arguments |-> ArgsValid],
      [name |-> "get_appointments", arguments |-> ArgsTruncated] }

SeqsUpTo(S, n) == UNION { [1..k -> S] : k \in 1..n }

\* The tool-call batch of run r: call i has correlation id 10 * r + i
BatchesOf(r) ==
    { [i \in 1..Len(b) |-> [id |-> 10 * r + i, type |-> "function",
                            name |-> b[i].name, arguments |-> b[i].arguments]] :
      b \in SeqsUpTo(CallShapes, env.maxCalls) }

\* the batch of a run that asks for tools outside the initial polling phase
\* of the turn that started it (a second time, or after that turn returned)
SecondBatch(r) ==
    <<[id |-> 10 * r + 9, type |-> "function", name |-> "get_appointments",
       arguments |-> ArgsValid]>>

\* a dispatch that has a handler for every name
handleFunctionCallAnyName(functionName, functionArgs, handlerOk) ==
    IF handlerOk
    THEN [success |-> TRUE, error |-> "none", tool |-> functionName]
    ELSE [success |-> FALSE, error |-> "handler", tool |-> functionName]

\* handleFunctionCall: the structured result of one tool call. handlerOk is
\* the outcome of the handler of a catalog tool; a handler that fails, and an
\* unknown name, give the structured failure of the catch
handleFunctionCall(functionName, functionArgs, handlerOk) ==
    IF functionName \in ToolCatalog /\ handlerOk
    THEN [success |-> TRUE, error |-> "none", tool |-> functionName]
    ELSE [success |-> FALSE,
          error |-> IF functionName \in ToolCatalog THEN "handler" ELSE "Unknown function",
          tool |-> functionName]

\* JSON.stringify of a tool result
JSONStringify(v) == <<"json", v.success, v.error, v.tool>>

\* ------------------------------------------------------------------------
\* Initial states: the stores and the remote service as earlier turns and
\* earlier deployments can have left them
\* ------------------------------------------------------------------------
\* the content of a message that is not the user's message of this turn
NoContent == <<>>

NoResult == [kind |-> "none", success |-> FALSE, message |-> "", error |-> "none",
             status |-> "none", threadId |-> 0, reply |-> 0]

NoAssistantCall == [returned |-> 0, reported |-> NoModel, delRequested |-> {},
                    created |-> 0, persisted |-> 0, failed |-> FALSE,
                    storedBefore |-> 0, storedModelBefore |-> NoModel,
                    remoteModelBefore |-> NoModel, updateFailed |-> FALSE]

NoThreadCall == [returned |-> 0, storedBefore |-> 0, retrieved |-> FALSE,
                 created |-> {}, failed |-> FALSE]

IdleTurn == [pc |-> "idle", no |-> 0, assistantId |-> 0, threadId |-> 0,
             finalThreadId |-> 0, runId |-> 0, status |-> "none", elapsed |-> 0,
             requiredActions |-> <<>>, toolOutputs |-> <<>>, branch |-> "none",
             submits |-> 0,
             err |-> "none", result |-> NoResult, content |-> NoContent,
             ga |-> NoAssistantCall, gt |-> NoThreadCall]

NoConfig == [exists |-> FALSE, assistantId |-> 0, model |-> NoModel]

Assistant(m, d) == [model |-> m, deleted |-> d, instructionsBy |-> "deploy"]

\* the AssistantIdentity and the remote assistant, as left by earlier runs
AssistantInits ==
    { <<NoConfig, <<>>>>,
      <<[exists |-> TRUE, assistantId |-> 1, model |-> "gpt-4o"], <<Assistant("gpt-4o", FALSE)>>>>,
      <<[exists |-> TRUE, assistantId |-> 1, model |-> ExpectedModel], <<Assistant(ExpectedModel, FALSE)>>>>,
      <<[exists |-> TRUE, assistantId |-> 1, model |-> ExpectedModel], <<Assistant("gpt-4o", FALSE)>>>>,
      <<[exists |-> TRUE, assistantId |-> 1, model |-> ExpectedModel], <<Assistant(ExpectedModel, TRUE)>>>> }

\* a user's conversation thread as earlier turns left it: never created,
\* no longer resolvable, idle, or with the run of a turn that timed out
ThreadInits == {"none", "gone", "idle", "in_progress", "requires_action"}

\* String.prototype.trim
RECURSIVE trim(_)
trim(s) ==
    IF s = <<>> THEN s
    ELSE IF Head(s) = " " THEN trim(Tail(s))
    ELSE IF s[Len(s)] = " " THEN trim(SubSeq(s, 1, Len(s) - 1))
    ELSE s

\* data.command of a request: not blank, with blanks around it
CommandText == <<" ", "h", "i", " ">>

\* validateCommand of a command that is a non-blank string
validateCommand(command) == trim(command)

\* a document that does not exist
NoDoc == [exists |-> FALSE]

\* getPartialAppointmentContext: the data of the document, or null when
\* there is none and when the read fails
getPartialAppointmentContext(doc, readOk) ==
    IF readOk /\ doc.exists THEN doc ELSE NoDoc

\* the content of the user's message: contextInfo + userCommandText when
\* partialContext?.collectedData is set, userCommandText otherwise
contextualizedCommand(partialContext, userCommandText) ==
    [contextInfo |-> IF partialContext.exists /\ "collectedData" \in DOMAIN partialContext
                     THEN [eventType |-> partialContext.eventType,
                           collectedData |-> partialContext.collectedData,
                           missingFields |-> partialContext.missingFields]
                     ELSE <<>>,
     text |-> userCommandText]

OldMessage(u) == [role |-> "user", by |-> u, n |-> 0, content |-> NoContent]

InitThread(u, k) ==
    [exists |-> k \in {"idle", "in_progress", "requires_action"},
     msgs |-> IF k \in {"in_progress", "requires_action"} THEN <<OldMessage(u)>> ELSE <<>>]

InitRuns(u, k) ==
    IF k \in {"in_progress", "requires_action"}
    THEN <<[thread |-> UserIdx(u), status |-> k, assistant |-> 1, by |-> u,
            calls |-> IF k = "requires_action" THEN SecondBatch(1) ELSE <<>>,
            submitted |-> <<>>]>>
    ELSE <<>>

\* no tool handler has been called
IdleTool ==
    [name |-> "none", pc |-> "idle", details |-> <<>>, accessToken |-> FALSE,
     result |-> <<>>, before |-> <<>>, wrote |-> FALSE, syncCalled |-> FALSE,
     insertCalled |-> FALSE, insertThrew |-> FALSE, todo |-> {},
     cancelledCount |-> 0, calendarErrorCount |-> 0, created |-> 0,
     attempts |-> <<>>]

\* empty stores of the tool handlers, and a request without access token
NoToolState ==
    /\ appointments = <<>>
    /\ partialAppointments = NoDoc
    /\ calendar = {}
    /\ pendingOperations = NoDoc
    /\ settings = NoDoc
    /\ request = [accessToken |-> FALSE]
    /\ tool = IdleTool

InitCore(ka, kb, a, pend, e) ==
    /\ configDoc = a[1]
    /\ remoteAssts = a[2]
    /\ threads = <<InitThread("alice", ka), InitThread("bob", kb)>>
    /\ runs = InitRuns("alice", ka) \o InitRuns("bob", kb)
    /\ userDoc = [u \in Users |->
                    [activeThreadId |-> IF (IF u = "alice" THEN ka ELSE kb) = "none"
                                        THEN 0 ELSE UserIdx(u),
                     previousThreadId |-> 0]]
    /\ pending = pend
    /\ env = e
    /\ turn = [u \in Users |-> IdleTurn]
    /\ touched = {}

InitWith(ka, kb, a, pend, e) == InitCore(ka, kb, a, pend, e) /\ NoToolState

OneRequest(U) == [u \in Users |-> IF u \in U THEN 1 ELSE 0]

\* One request of one caller: a fresh deployment on a fast network, or any
\* earlier state on the slow one (a thread exists only if an earlier turn
\* stored an AssistantIdentity)
Init ==
    \/ InitWith("none", "none", <<NoConfig, <<>>>>, OneRequest({"alice"}),
                [latency |-> 0, maxCalls |-> MaxBatch, faults |-> TRUE])
    \/ \E ka \in ThreadInits, a \in AssistantInits :
          /\ a[1].exists \/ ka = "none"
          /\ InitWith(ka, "none", a, OneRequest({"alice"}),
                   [latency |-> SlowCall, maxCalls |-> MaxBatch, faults |-> TRUE])

\* One request of one caller whose remote assistant asks for one tool call at
\* a time: a fresh deployment on a fast network, or a deployment in use, with
\* the run of a turn that timed out, on the slow one
InitFair ==
    \/ InitWith("none", "none", <<NoConfig, <<>>>>, OneRequest({"alice"}),
                [latency |-> 0, maxCalls |-> 1, faults |-> TRUE])
    \/ InitWith("in_progress", "none",
                <<[exists |-> TRUE, assistantId |-> 1, model |-> ExpectedModel],
                  <<Assistant(ExpectedModel, FALSE)>>>>,
                OneRequest({"alice"}),
                [latency |-> SlowCall, maxCalls |-> 1, faults |-> TRUE])

\* One request of each of two callers, whose turns interleave; remote calls
\* are slow enough for one poll to exhaust the initial polling phase, and the
\* remote assistant asks for one tool call at a time, and calls fail only
\* for what the stores hold
InitMulti ==
    \E k \in {<<"in_progress", "idle", <<[exists |-> TRUE, assistantId |-> 1, model |-> ExpectedModel],
                                          <<Assistant(ExpectedModel, FALSE)>>>>>>,
               <<"none", "none", <<NoConfig, <<>>>>>>} :
       InitWith(k[1], k[2], k[3], OneRequest(Users),
                [latency |-> maxPollingTime + SlowCall, maxCalls |-> 1, faults |-> FALSE])

\* ------------------------------------------------------------------------
\* Helpers on the remote state
\* ------------------------------------------------------------------------
Touch(u, accesses) == touched' = touched \cup { <<a[1], a[2], u, a[3]>> : a \in accesses }

ThreadExists(t) == t \in 1..Len(threads) /\ threads[t].exists

\* the runs of thread t that block an append and a new run
BlockingRuns(rs, t) == { r \in 1..Len(rs) : rs[r].thread = t /\ rs[r].status \in BlockingStatuses }

\* the remote service moves run r to status s (s in NextStatuses of its
\* status) and, entering requires_action, issues the batch calls
Advance(rs, r, s, calls) ==
    [rs EXCEPT ![r].status = s,
               ![r].calls = IF s = "requires_action" /\ rs[r].status # "requires_action"
                            THEN calls ELSE @]

\* a run that completes leaves the assistant's reply as the thread's last message
WithReply(ts, rs, r, s) ==
    IF s = "completed" /\ rs[r].status # "completed"
    THEN [ts EXCEPT ![rs[r].thread].msgs = Append(@, [role |-> "assistant", by |-> "remote", n |-> r,
                                                      content |-> NoContent])]
    ELSE ts

UserMessage(u) == [role |-> "user", by |-> u, n |-> turn[u].no, content |-> turn[u].content]

\* ------------------------------------------------------------------------
\* The turn: processVoiceCommand
\* ------------------------------------------------------------------------
\* the catch of processVoiceCommand: an Error becomes a result
CatchResult(tag) ==
    [kind |-> "caught", success |-> FALSE,
     message |-> IF Includes(ErrText(tag), PatTimeout) THEN MsgTakingLonger
                 ELSE IF Includes(ErrText(tag), PatApiKey) THEN MsgConfiguration
                 ELSE MsgError,
     error |-> IF Includes(ErrText(tag), PatTimeout) \/ Includes(ErrText(tag), PatApiKey)
               THEN "none" ELSE tag,
     status |-> "none", threadId |-> 0, reply |-> 0]

\* the turn of u ends in the catch with the Error tag
Throw(u, tag) ==
    [turn EXCEPT ![u].pc = "idle", ![u].err = tag, ![u].result = CatchResult(tag)]

\* the outcomes of one external call: it succeeds, or (env.faults) it fails
CallOutcomes == IF env.faults THEN BOOLEAN ELSE {TRUE}

\* a request of u arrives and passes validateUserAuth and validateCommand;
\* getOpenAIClient() is called before the try: without a value of the secret its Error leaves
\* processVoiceCommand uncaught, and the turn ends without a result
BeginTurn(u) ==
    /\ turn[u].pc = "idle"
    /\ pending[u] > 0
    /\ pending' = [pending EXCEPT ![u] = @ - 1]
    /\ \E keyOk \in CallOutcomes :
          turn' = [turn EXCEPT ![u] =
                     IF keyOk
                     THEN [IdleTurn EXCEPT !.pc = "assistant", !.no = turn[u].no + 1]
                     ELSE [IdleTurn EXCEPT !.no = turn[u].no + 1, !.err = "apiKey"]]
    /\ UNCHANGED <<configDoc, remoteAssts, threads, runs, userDoc, env, touched, toolVars>>

\* a model check that accepts whatever model the remote service reports
ModelAcceptedAny(m) == TRUE

\* the model check of getOrCreateAssistant (on the stored, the retrieved and
\* the created model)
ModelAccepted(m) == m = ExpectedModel

\* FORCE RECREATION: the stored assistant is never returned
ReuseNever(retrieved, wrongRemote, updateOk) == FALSE

\* the stored assistant is returned when it was retrieved with the expected
\* model and assistants.update did not throw; the catch around retrieve and
\* update falls through to the creation
ReuseStored(retrieved, wrongRemote, updateOk) == retrieved /\ ~wrongRemote /\ updateOk

\* getOrCreateAssistant as a function of the stores and of what the remote
\* and storage calls of this execution do (o): the new stores, the returned
\* id (0 when it throws) and what the call did
AssistantOutcome(u, cfg, assts, o) ==
    LET aid == cfg.assistantId
        alive == aid \in 1..Len(assts) /\ ~assts[aid].deleted
        wrongStored == cfg.exists /\ cfg.model # NoModel /\ ~ModelAccepted(cfg.model)
        tryRetrieve == cfg.exists /\ ~wrongStored /\ aid # 0
        retrieved == tryRetrieve /\ alive /\ o.retrieveOk
        remoteModel == IF alive THEN assts[aid].model ELSE NoModel
        wrongRemote == retrieved /\ ~ModelAccepted(remoteModel)
        delOld == (wrongStored /\ aid # 0) \/ wrongRemote
        reuse == ReuseStored(retrieved, wrongRemote, o.updateOk)
        assts1 == IF delOld /\ alive /\ o.deleteOk
                  THEN [assts EXCEPT ![aid].deleted = TRUE] ELSE assts
        newId == Len(assts1) + 1
        assts2 == Append(assts1, [model |-> o.newModel, deleted |-> FALSE, instructionsBy |-> u])
        base == [NoAssistantCall EXCEPT !.storedBefore = IF cfg.exists THEN aid ELSE 0,
                                        !.storedModelBefore = cfg.model,
                                        !.remoteModelBefore = IF retrieved THEN remoteModel ELSE NoModel,
                                        !.delRequested = IF delOld THEN {aid} ELSE {},
                                        !.updateFailed = retrieved /\ ~wrongRemote /\ ~o.updateOk]
        reads == {<<"config", 0, "r">>} \cup (IF tryRetrieve THEN {<<"assistant", aid, "r">>} ELSE {})
        dels == IF delOld THEN {<<"assistant", aid, "w">>} ELSE {}
    IN  IF ~o.configOk
        THEN [cfg |-> cfg, assts |-> assts, err |-> "assistant:conn",
              ga |-> [NoAssistantCall EXCEPT !.failed = TRUE], acc |-> {<<"config", 0, "r">>}]
        ELSE IF reuse
        THEN [cfg |-> cfg, assts |-> [assts EXCEPT ![aid].instructionsBy = u], err |-> "none",
              ga |-> [base EXCEPT !.returned = aid, !.reported = remoteModel],
              acc |-> reads \cup {<<"assistant", aid, "w">>}]
        ELSE IF ~o.createOk
        THEN [cfg |-> cfg, assts |-> assts1, err |-> "assistant:conn",
              ga |-> [base EXCEPT !.failed = TRUE], acc |-> reads \cup dels]
        ELSE IF ~ModelAccepted(o.newModel)
        THEN [cfg |-> cfg,
              assts |-> IF o.deleteNewOk THEN [assts2 EXCEPT ![newId].deleted = TRUE] ELSE assts2,
              err |-> IF o.deleteNewOk THEN "assistant:wrongModel" ELSE "assistant:conn",
              ga |-> [base EXCEPT !.failed = TRUE, !.created = newId,
                                  !.delRequested = @ \cup {newId}],
              acc |-> reads \cup dels \cup {<<"assistant", newId, "w">>}]
        ELSE IF ~o.setOk
        THEN [cfg |-> cfg, assts |-> assts2, err |-> "assistant:conn",
              ga |-> [base EXCEPT !.failed = TRUE, !.created = newId],
              acc |-> reads \cup dels \cup {<<"assistant", newId, "w">>}]
        ELSE [cfg |-> [exists |-> TRUE, assistantId |-> newId, model |-> o.newModel],
              assts |-> assts2, err |-> "none",
              ga |-> [base EXCEPT !.returned = newId, !.reported = o.newModel,
                                  !.created = newId, !.persisted = newId],
              acc |-> reads \cup dels \cup {<<"assistant", newId, "w">>, <<"config", 0, "w">>}]

AssistantOracles ==
    [configOk : CallOutcomes, retrieveOk : CallOutcomes, updateOk : CallOutcomes,
     deleteOk : CallOutcomes, createOk : CallOutcomes,
     newModel : IF env.faults THEN Models ELSE {ExpectedModel},
     deleteNewOk : CallOutcomes, setOk : CallOutcomes]

\* processVoiceCommand: const assistantId = await getOrCreateAssistant(userTimezone)
GetOrCreateAssistant(u) ==
    /\ turn[u].pc = "assistant"
    /\ \E o \in AssistantOracles :
          LET r == AssistantOutcome(u, configDoc, remoteAssts, o)
          IN  /\ configDoc' = r.cfg
              /\ remoteAssts' = r.assts
              /\ turn' = IF r.err = "none"
                         THEN [turn EXCEPT ![u].pc = "thread", ![u].assistantId = r.ga.returned,
                                           ![u].ga = r.ga]
                         ELSE [Throw(u, r.err) EXCEPT ![u].ga = r.ga]
              /\ Touch(u, r.acc)
    /\ UNCHANGED <<threads, runs, userDoc, pending, env, toolVars>>

NewThread == [exists |-> TRUE, msgs |-> <<>>]

\* storing the id read from the user's document instead of the new one
ThreadToStoreOld(created, stored) == stored

\* the thread id getOrCreateThread stores and returns after creating a thread
ThreadToStore(created, stored) == created

\* getOrCreateThread as a function of the user's document, the remote threads
\* and what the calls of this execution do (o)
ThreadOutcome(u, doc, ts, o) ==
    LET stored == doc.activeThreadId
        retrieved == stored # 0 /\ stored \in 1..Len(ts) /\ ts[stored].exists /\ o.retrieveOk
        newId == Len(ts) + 1
        ts1 == Append(ts, NewThread)
        base == [NoThreadCall EXCEPT !.storedBefore = stored, !.retrieved = retrieved]
        reads == {<<"userDoc", UserIdx(u), "r">>} \cup
                 (IF stored # 0 THEN {<<"thread", stored, "r">>} ELSE {})
    IN  IF ~o.getOk
        THEN [doc |-> doc, ts |-> ts, err |-> "thread:conn",
              gt |-> [NoThreadCall EXCEPT !.failed = TRUE],
              acc |-> {<<"userDoc", UserIdx(u), "r">>}]
        ELSE IF retrieved
        THEN [doc |-> doc, ts |-> ts, err |-> "none",
              gt |-> [base EXCEPT !.returned = stored], acc |-> reads]
        ELSE IF ~o.createOk
        THEN [doc |-> doc, ts |-> ts, err |-> "thread:conn",
              gt |-> [base EXCEPT !.failed = TRUE], acc |-> reads]
        ELSE IF ~o.updateOk
        THEN [doc |-> doc, ts |-> ts1, err |-> "thread:conn",
              gt |-> [base EXCEPT !.failed = TRUE, !.created = {newId}],
              acc |-> reads \cup {<<"thread", newId, "w">>}]
        ELSE [doc |-> [doc EXCEPT !.activeThreadId = ThreadToStore(newId, stored)],
              ts |-> ts1, err |-> "none",
              gt |-> [base EXCEPT !.returned = newId, !.created = {newId}],
              acc |-> reads \cup {<<"thread", newId, "w">>, <<"userDoc", UserIdx(u), "w">>}]

ThreadOracles ==
    [getOk : CallOutcomes, retrieveOk : CallOutcomes, createOk : CallOutcomes,
     updateOk : CallOutcomes]

\* processVoiceCommand: const threadId = await getOrCreateThread(userId)
GetOrCreateThread(u) ==
    /\ turn[u].pc = "thread"
    /\ \E o \in ThreadOracles, readOk \in CallOutcomes :
          LET r == ThreadOutcome(u, userDoc[u], threads, o)
              partialContext == getPartialAppointmentContext(partialAppointments, readOk)
          IN  /\ userDoc' = [userDoc EXCEPT ![u] = r.doc]
              /\ threads' = r.ts
              /\ turn' = IF r.err = "none"
                         THEN [turn EXCEPT ![u].pc = "append", ![u].threadId = r.gt.returned,
                                           ![u].finalThreadId = r.gt.returned, ![u].gt = r.gt,
                                           ![u].content =
                                              contextualizedCommand(partialContext,
                                                                    validateCommand(CommandText))]
                         ELSE [Throw(u, r.err) EXCEPT ![u].gt = r.gt]
              /\ Touch(u, r.acc)
    /\ UNCHANGED <<configDoc, remoteAssts, runs, pending, env, toolVars>>

\* ------------------------------------------------------------------------
\* MessageAppend, with the recovery from an active run
\* ------------------------------------------------------------------------
\* the test of the catch around the first append: is it the active-run error
IsActiveRunError(tag) ==
    Includes(ErrText(tag), PatWhileARun) /\ Includes(ErrText(tag), PatIsActive)

\* what the remote service may have done, by the time of a call, with the
\* run that blocks thread t (there is at most one): the possible <<runs, threads>>
ProgressOf(t) ==
    IF BlockingRuns(runs, t) = {}
    THEN {<<runs, threads>>}
    ELSE UNION { { <<Advance(runs, r, s, SecondBatch(r)), WithReply(threads, runs, r, s)>> :
                   s \in NextStatuses(runs[r].status) } : r \in BlockingRuns(runs, t) }

\* the first run of the listing that the recovery takes for active
FindActiveRun(rs, t) ==
    LET A == { r \in 1..Len(rs) : rs[r].thread = t /\ rs[r].status \in ListedActive }
    IN  IF A = {} THEN 0 ELSE CHOOSE r \in A : \A q \in A : q <= r

\* openai.beta.threads.messages.create(threadId, ...), first attempt
AppendMessage(u) ==
    /\ turn[u].pc = "append"
    /\ \E p \in ProgressOf(turn[u].threadId), callOk \in CallOutcomes :
          LET t == turn[u].threadId
              blocked == BlockingRuns(p[1], t) # {}
              tag == IF blocked THEN "activeRun" ELSE "conn"
          IN  /\ runs' = p[1]
              /\ IF ~blocked /\ callOk
                 THEN /\ threads' = [p[2] EXCEPT ![t].msgs = Append(@, UserMessage(u))]
                      /\ turn' = [turn EXCEPT ![u].pc = "run"]
                 ELSE /\ threads' = p[2]
                      /\ turn' = IF IsActiveRunError(tag)
                                 THEN [turn EXCEPT ![u].pc = "recover"]
                                 ELSE Throw(u, tag)
              /\ Touch(u, {<<"partialContext", UserIdx(u), "r">>, <<"thread", t, "w">>})
    /\ UNCHANGED <<configDoc, remoteAssts, userDoc, pending, env, toolVars>>

\* the recovery: runs.list, find the active run, runs.cancel
RecoverListCancel(u) ==
    /\ turn[u].pc = "recover"
    /\ \E p \in ProgressOf(turn[u].threadId), listOk \in CallOutcomes, cancelOk \in CallOutcomes :
          LET t == turn[u].threadId
              activeRun == FindActiveRun(p[1], t)
          IN  /\ threads' = p[2]
              /\ IF ~listOk
                 THEN /\ runs' = p[1]
                      /\ turn' = [turn EXCEPT ![u].pc = "newThread", ![u].branch = "cancelFailed"]
                      /\ Touch(u, {<<"thread", t, "r">>})
                 ELSE IF activeRun = 0
                 THEN /\ runs' = p[1]
                      /\ turn' = [turn EXCEPT ![u].pc = "run", ![u].branch = "noActiveRun"]
                      /\ Touch(u, {<<"thread", t, "r">>})
                 ELSE IF ~cancelOk
                 THEN /\ runs' = p[1]
                      /\ turn' = [turn EXCEPT ![u].pc = "newThread", ![u].branch = "cancelFailed"]
                      /\ Touch(u, {<<"thread", t, "r">>, <<"run", activeRun, "w">>})
                 ELSE /\ runs' = [p[1] EXCEPT ![activeRun].status = "cancelling"]
                      /\ turn' = [turn EXCEPT ![u].pc = "retry", ![u].branch = "cancelled"]
                      /\ Touch(u, {<<"thread", t, "r">>, <<"run", activeRun, "w">>})
    /\ UNCHANGED <<configDoc, remoteAssts, userDoc, pending, env, toolVars>>

\* after the grace period: retry the append on the same thread
RetryAppend(u) ==
    /\ turn[u].pc = "retry"
    /\ \E p \in ProgressOf(turn[u].threadId), callOk \in CallOutcomes :
          LET t == turn[u].threadId
              blocked == BlockingRuns(p[1], t) # {}
          IN  /\ runs' = p[1]
              /\ IF ~blocked /\ callOk
                 THEN /\ threads' = [p[2] EXCEPT ![t].msgs = Append(@, UserMessage(u))]
                      /\ turn' = [turn EXCEPT ![u].pc = "run"]
                 ELSE /\ threads' = p[2]
                      /\ turn' = [turn EXCEPT ![u].pc = "newThread", ![u].branch = "cancelFailed"]
              /\ Touch(u, {<<"thread", t, "w">>})
    /\ UNCHANGED <<configDoc, remoteAssts, userDoc, pending, env, toolVars>>

\* storing the new thread's id as the previous one
PreviousThreadRefNew(threadId, newId) == newId

\* the reference to the abandoned thread that the fallback stores
PreviousThreadRef(threadId, newId) == threadId

\* the catch of the recovery: a new thread, stored as the user's active
\* thread, receives the message
NewThreadFallback(u) ==
    /\ turn[u].pc = "newThread"
    /\ \E createOk \in CallOutcomes, updateOk \in CallOutcomes, callOk \in CallOutcomes :
          LET newId == Len(threads) + 1
          IN  IF ~createOk
              THEN /\ turn' = Throw(u, "conn")
                   /\ UNCHANGED <<threads, userDoc, touched>>
              ELSE IF ~updateOk
              THEN /\ threads' = Append(threads, NewThread)
                   /\ turn' = [Throw(u, "conn") EXCEPT ![u].finalThreadId = newId]
                   /\ Touch(u, {<<"thread", newId, "w">>})
                   /\ UNCHANGED userDoc
              ELSE /\ userDoc' = [userDoc EXCEPT ![u] =
                                    [activeThreadId |-> newId,
                                     previousThreadId |-> PreviousThreadRef(turn[u].threadId, newId)]]
                   /\ Touch(u, {<<"thread", newId, "w">>, <<"userDoc", UserIdx(u), "w">>})
                   /\ IF callOk
                      THEN /\ threads' = Append(threads, [NewThread EXCEPT !.msgs = <<UserMessage(u)>>])
                           /\ turn' = [turn EXCEPT ![u].pc = "run", ![u].finalThreadId = newId]
                      ELSE /\ threads' = Append(threads, NewThread)
                           /\ turn' = [Throw(u, "conn") EXCEPT ![u].finalThreadId = newId]
    /\ UNCHANGED <<configDoc, remoteAssts, runs, pending, env, toolVars>>

\* ------------------------------------------------------------------------
\* RunStarted and polling
\* ------------------------------------------------------------------------
\* openai.beta.threads.runs.create(finalThreadId, {assistant_id})
CreateRun(u) ==
    /\ turn[u].pc = "run"
    /\ \E p \in ProgressOf(turn[u].finalThreadId), callOk \in CallOutcomes :
          LET t == turn[u].finalThreadId
              blocked == BlockingRuns(p[1], t) # {}
              newId == Len(runs) + 1
          IN  /\ threads' = p[2]
              /\ IF ~blocked /\ callOk
                 THEN /\ runs' = Append(p[1], [thread |-> t, status |-> "queued",
                                               assistant |-> turn[u].assistantId, by |-> u,
                                               calls |-> <<>>, submitted |-> <<>>])
                      /\ turn' = [turn EXCEPT ![u].pc = "poll1", ![u].runId = newId,
                                              ![u].status = "queued", ![u].elapsed = 0]
                      /\ Touch(u, {<<"thread", t, "w">>, <<"run", newId, "w">>,
                                   <<"assistant", turn[u].assistantId, "r">>})
                 ELSE /\ runs' = p[1]
                      /\ turn' = Throw(u, "conn")
                      /\ Touch(u, {<<"thread", t, "w">>})
    /\ UNCHANGED <<configDoc, remoteAssts, userDoc, pending, env, toolVars>>

\* a loop that is left as soon as the run is in progress
KeepPollingQueued(status) == status = "queued"

\* the condition of both polling loops
KeepPolling(status) == status \in LoopStatuses

\* Date.now() - startTime > bound
TimedOut(elapsed, bound) == elapsed > bound

\* a clock read that never advances past the start time
AfterIterationStuck(elapsed, lat) == elapsed

\* the time one loop iteration takes: the sleep and the retrieve
AfterIteration(elapsed, lat) == elapsed + pollingInterval + lat

\* where the turn goes once a polling loop is left (first: the initial loop)
AfterLoop(status, first) ==
    IF KeepPolling(status) THEN (IF first THEN "poll1" ELSE "poll2")
    ELSE IF first /\ status = "requires_action" THEN "tools"
    ELSE "finish"

\* one iteration of a polling loop: timeout check, sleep, runs.retrieve
PollStep(u, first, bound, tag, batches) ==
    LET r == turn[u].runId
    IN  IF TimedOut(turn[u].elapsed, bound)
        THEN /\ turn' = Throw(u, tag)
             /\ UNCHANGED <<runs, threads, touched>>
        ELSE \E callOk \in CallOutcomes, s \in NextStatuses(runs[r].status) :
             \E b \in IF callOk /\ s = "requires_action" THEN batches ELSE {<<>>} :
                IF ~callOk
                THEN /\ turn' = Throw(u, "conn")
                     /\ Touch(u, {<<"run", r, "r">>})
                     /\ UNCHANGED <<runs, threads>>
                ELSE /\ runs' = Advance(runs, r, s, b)
                     /\ threads' = WithReply(threads, runs, r, s)
                     /\ turn' = [turn EXCEPT ![u].status = s,
                                             ![u].elapsed = AfterIteration(@, env.latency),
                                             ![u].requiredActions =
                                                 IF first /\ s = "requires_action" THEN b ELSE @,
                                             ![u].pc = AfterLoop(s, first)]
                     /\ Touch(u, {<<"run", r, "r">>})

\* the initial polling phase
Poll1(u) ==
    /\ turn[u].pc = "poll1"
    /\ PollStep(u, TRUE, maxPollingTime, "timeout1", BatchesOf(turn[u].runId))
    /\ UNCHANGED <<configDoc, remoteAssts, userDoc, pending, env, toolVars>>

\* the polling phase after the tool outputs were submitted
Poll2(u) ==
    /\ turn[u].pc = "poll2"
    /\ PollStep(u, FALSE, extendedTimeout, "timeout2", {SecondBatch(turn[u].runId)})
    /\ UNCHANGED <<configDoc, remoteAssts, userDoc, pending, env, toolVars>>

\* ------------------------------------------------------------------------
\* RequiresAction: the tool-call batch
\* ------------------------------------------------------------------------
\* one iteration of the loop over requiredActions: JSON.parse, then
\* handleFunctionCall, then toolOutputs.push
DispatchToolCall(u) ==
    /\ turn[u].pc = "tools"
    /\ LET r == turn[u].runId
           calls == turn[u].requiredActions
           i == Len(turn[u].toolOutputs) + 1
           toolCall == calls[i]
           functionArgs == JSONParse(toolCall.arguments)
       IN  IF toolCall.type = "function" /\ ~functionArgs.ok
           THEN /\ turn' = Throw(u, "json")
                /\ UNCHANGED touched
           ELSE \E handlerOk \in BOOLEAN :
                   /\ turn' = [turn EXCEPT
                         ![u].toolOutputs =
                             IF toolCall.type = "function"
                             THEN Append(@, [tool_call_id |-> toolCall.id,
                                             output |-> JSONStringify(
                                                 handleFunctionCall(toolCall.name,
                                                                    functionArgs.value, handlerOk))])
                             ELSE @,
                         ![u].pc = IF i = Len(calls) THEN "submit" ELSE "tools"]
                   /\ Touch(u, IF toolCall.name \in ToolCatalog
                               THEN {<<"userData", UserIdx(u), "w">>} ELSE {})
    /\ UNCHANGED <<configDoc, remoteAssts, threads, runs, userDoc, pending, env, toolVars>>

\* openai.beta.threads.runs.submitToolOutputs(finalThreadId, run.id, {tool_outputs})
SubmitToolOutputs(u) ==
    /\ turn[u].pc = "submit"
    /\ \E callOk \in CallOutcomes, s \in LoopStatuses :
          LET r == turn[u].runId
          IN  /\ IF callOk
                 THEN /\ runs' = [runs EXCEPT ![r].status = s,
                                              ![r].submitted = Append(@, turn[u].toolOutputs)]
                      /\ turn' = [turn EXCEPT ![u].status = s, ![u].elapsed = 0,
                                              ![u].submits = @ + 1,
                                              ![u].pc = AfterLoop(s, FALSE)]
                 ELSE /\ runs' = runs
                      /\ turn' = [Throw(u, "conn") EXCEPT ![u].submits = @ + 1]
              /\ Touch(u, {<<"run", r, "w">>})
    /\ UNCHANGED <<configDoc, remoteAssts, threads, userDoc, pending, env, toolVars>>

\* ------------------------------------------------------------------------
\* The end of the turn
\* ------------------------------------------------------------------------
\* the other end of the list: the oldest message of the thread
OldestMessage(t) == threads[t].msgs[1]

\* messages.data[0] of messages.list: the most recent message of the thread
LastMessage(t) == threads[t].msgs[Len(threads[t].msgs)]

\* the results of the three normal returns
CompletedResult(t, m) ==
    [kind |-> "completed", success |-> TRUE, message |-> MsgAssistantReply, error |-> "none",
     status |-> "none", threadId |-> t, reply |-> m.n]

FailedResult ==
    [kind |-> "failed", success |-> FALSE, message |-> MsgError, error |-> "last_error",
     status |-> "none", threadId |-> 0, reply |-> 0]

FallbackResult(status) ==
    [kind |-> "fallback", success |-> FALSE, message |-> MsgFallback, error |-> "none",
     status |-> status, threadId |-> 0, reply |-> 0]

\* GET ASSISTANT RESPONSE / HANDLE ERRORS / FALLBACK RESPONSE
Finish(u) ==
    /\ turn[u].pc = "finish"
    /\ LET t == turn[u].finalThreadId
           status == turn[u].status
       IN  IF status = "completed"
           THEN \E callOk \in CallOutcomes :
                   /\ turn' = IF ~callOk THEN Throw(u, "conn")
                              ELSE IF threads[t].msgs # <<>> /\ LastMessage(t).role = "assistant"
                              THEN [turn EXCEPT ![u].pc = "idle",
                                                ![u].result = CompletedResult(t, LastMessage(t))]
                              ELSE [turn EXCEPT ![u].pc = "idle",
                                                ![u].result = FallbackResult(status)]
                   /\ Touch(u, {<<"thread", t, "r">>})
           ELSE /\ turn' = [turn EXCEPT ![u].pc = "idle",
                                        ![u].result = IF status = "failed" THEN FailedResult
                                                      ELSE FallbackResult(status)]
                /\ UNCHANGED touched
    /\ UNCHANGED <<configDoc, remoteAssts, threads, runs, userDoc, pending, env, toolVars>>

\* ------------------------------------------------------------------------
\* Specifications
\* ------------------------------------------------------------------------
TurnStep(u) ==
    \/ BeginTurn(u)
    \/ GetOrCreateAssistant(u)
    \/ GetOrCreateThread(u)
    \/ AppendMessage(u)
    \/ RecoverListCancel(u)
    \/ RetryAppend(u)
    \/ NewThreadFallback(u)
    \/ CreateRun(u)
    \/ Poll1(u)
    \/ DispatchToolCall(u)
    \/ SubmitToolOutputs(u)
    \/ Poll2(u)
    \/ Finish(u)

Next == \E u \in Users : TurnStep(u)

Spec == Init /\ [][Next]_vars

\* a turn that has begun goes on: every step of processVoiceCommand is a
\* call that returns
FairSpec == InitFair /\ [][Next]_vars /\ WF_vars(Next)

\* concurrent turns of two users
SpecMulti == InitMulti /\ [][Next]_vars

\* ------------------------------------------------------------------------
\* Properties
\* ------------------------------------------------------------------------
Returned(u) == turn[u].pc = "idle" /\ turn[u].result.kind # "none"

RunStartedBy(u) == turn[u].runId # 0

MessagesOf(t) == { threads[t].msgs[i] : i \in 1..Len(threads[t].msgs) }

OutputIds(outs) == [i \in 1..Len(outs) |-> outs[i].tool_call_id]

CallIds(calls) == [i \in 1..Len(calls) |-> calls[i].id]

\* C1: whenever a turn has started its run on a thread, the user's message
\* of that turn is among the messages of that thread
C1_MessageAppendedBeforeRun ==
    \A u \in Users :
        RunStartedBy(u) => UserMessage(u) \in MessagesOf(runs[turn[u].runId].thread)

\* C2: a turn whose run reached requires_action with a batch makes exactly
\* one tool-output submission, holding one output per requested call, keyed
\* by the calls' ids in order
C2_OneSubmissionPerBatch ==
    \A u \in Users :
        (Returned(u) /\ turn[u].requiredActions # <<>>) =>
            /\ turn[u].submits = 1
            /\ OutputIds(turn[u].toolOutputs) = CallIds(turn[u].requiredActions)

\* a call of a batch that fails in execution: unknown name, or arguments
\* that JSON.parse rejects
BadCall(c) == c.name \notin ToolCatalog \/ ~JSONParse(c.arguments).ok

\* C3: a batch holding a failing call is still dispatched in full, and the
\* outputs of all its calls reach the run: the turn is not aborted by it
C3_BadCallDoesNotAbort ==
    \A u \in Users :
        (/\ Returned(u)
         /\ \E i \in 1..Len(turn[u].requiredActions) : BadCall(turn[u].requiredActions[i])
         /\ turn[u].err # "conn") =>
            /\ turn[u].err # "json"
            /\ Len(turn[u].toolOutputs) = Len(turn[u].requiredActions)
            /\ runs[turn[u].runId].submitted = <<turn[u].toolOutputs>>

C5_TimeoutMessage ==
    \A u \in Users :
        (Returned(u) /\ turn[u].err \in {"timeout1", "timeout2"}) =>
            /\ turn[u].result.success = FALSE
            /\ turn[u].result.message = MsgTakingLonger

\* C6: every turn that has begun returns
C6_TurnTerminates ==
    \A u \in Users : (turn[u].pc # "idle") ~> (turn[u].pc = "idle")

\* a turn was cut off by the timeout of the post-tool-call polling phase
C6_Witness ==
    \E u \in Users : Returned(u) /\ turn[u].err = "timeout2"

\* C7: once a turn whose recovery failed to cancel the active run has started
\* its run, the run and the message are on a new thread, stored as the
\* user's active thread with the abandoned one as previousThreadId, and the
\* abandoned thread has neither
C7_AbandonedThread ==
    \A u \in Users :
        (turn[u].branch = "cancelFailed" /\ RunStartedBy(u)) =>
            LET old == turn[u].threadId
                new == turn[u].finalThreadId
            IN  /\ new # old
                /\ ThreadExists(new)
                /\ userDoc[u].activeThreadId = new
                /\ userDoc[u].previousThreadId = old
                /\ UserMessage(u) \in MessagesOf(new)
                /\ runs[turn[u].runId].thread = new
                /\ UserMessage(u) \notin MessagesOf(old)

\* a run was started after the fallback to a new thread
C7_Witness ==
    \E u \in Users : turn[u].branch = "cancelFailed" /\ RunStartedBy(u)

\* C8: right after a successful getOrCreateThread, the returned id is the
\* user's stored active thread id; it is the id stored before, with no thread
\* created, if that thread was retrieved, and otherwise the id of the one
\* thread the call created
C8_ThreadResolved ==
    \A u \in Users :
        turn[u].pc = "append" =>
            LET c == turn[u].gt
            IN  /\ c.returned = turn[u].threadId
                /\ userDoc[u].activeThreadId = c.returned
                /\ ThreadExists(c.returned)
                /\ c.retrieved => (c.returned = c.storedBefore /\ c.created = {})
                /\ ~c.retrieved => (c.created = {c.returned} /\ c.returned = Len(threads)
                                    /\ c.returned # c.storedBefore
                                    /\ threads[c.returned].msgs = <<>>)

\* the stored thread was not retrievable and a new one replaced it
C8_Witness ==
    \E u \in Users :
        /\ turn[u].pc = "append"
        /\ turn[u].gt.storedBefore # 0
        /\ turn[u].gt.created # {}

WrongModel(m) == m # NoModel /\ m # ExpectedModel

SharedKinds == {"config", "assistant"}

\* C10 as claimed: no object written by the turn of one user is read or
\* written by the turn of another
C10_NoSharedObject ==
    \A a \in touched, b \in touched :
        (a[1] = b[1] /\ a[2] = b[2] /\ a[3] # b[3]) => (a[4] = "r" /\ b[4] = "r")

\* C10 amended: no user document, partial context, user data, thread or
\* run touched by the turn of one user is touched by the turn of another;
\* only the AssistantIdentity document and the remote assistant are shared
C10_OnlyAssistantShared ==
    \A a \in touched, b \in touched :
        (a[1] = b[1] /\ a[2] = b[2] /\ a[3] # b[3]) => a[1] \in SharedKinds

\* the turns of both users ran to their runs on their own threads and both
\* wrote the remote assistant
C10_Witness ==
    /\ \A u \in Users : RunStartedBy(u)
    /\ \E a \in touched, b \in touched :
          a[1] = "assistant" /\ b[1] = "assistant" /\ a[2] = b[2] /\ a[3] # b[3]
          /\ a[4] = "w" /\ b[4] = "w"

\* ========================================================================
\* The tool handlers: domain operations behind handleFunctionCall
\* ========================================================================

\* ------------------------------------------------------------------------
\* Bounds of the tool model
\* ------------------------------------------------------------------------
\* largest number of appointments the creation calls of one behaviour write
MaxCreated == 1
\* largest number of appointments a user has stored before a cancellation
MaxStored == 2

\* ------------------------------------------------------------------------
\* Values of the tool arguments and documents
\* ------------------------------------------------------------------------
\* a string-valued field that is undefined, null or '' (all falsy)
Null == "null"
\* a text that is undefined, null or '' (texts are tuples of characters)
NoText == <<>>
\* a duration that is undefined or null
NoDuration == 0
\* googleCalendarEventId: null
NoEvent == 0
\* calendarSyncError not set
NoError == "none"

Falsy(x) == x \in {Null, ""}

DateA == "2025-07-25"
DateB == "2025-07-26"
TimeA == "14:00"
TimeB == "09:00"

TitleSync == <<"S","y","n","c">>
TitleSyncUp == <<"S","y","n","c"," ","u","p">>
TitleSynk == <<"S","y","n","k">>
TitleLunch == <<"L","u","n","c","h">>
TitleBirthday == <<"B","i","r","t","h","d","a","y">>
TitleMeeting == <<"M","e","e","t","i","n","g">>
TitlePersonalEvent == <<"P","e","r","s","o","n","a","l"," ","E","v","e","n","t">>
NameBob == <<"B","o","b">>
NameBobPadded == <<" ","B","o","b"," ">>
NameBo == <<"b","o">>
NameBlank == <<" ">>

\* String.prototype.toLowerCase on the letters the model's texts use
LowerOf == [c \in {"S","L","B","M","P","E"} |->
              CASE c = "S" -> "s" [] c = "L" -> "l" [] c = "B" -> "b"
                [] c = "M" -> "m" [] c = "P" -> "p" [] c = "E" -> "e"]

toLowerCase(s) == [i \in 1..Len(s) |-> IF s[i] \in DOMAIN LowerOf THEN LowerOf[s[i]] ELSE s[i]]

\* Array.prototype.filter
RECURSIVE SelectSeqOf(_, _)
SelectSeqOf(s, keep) ==
    IF s = <<>> THEN <<>>
    ELSE (IF Head(s) \in keep THEN <<Head(s)>> ELSE <<>>) \o SelectSeqOf(Tail(s), keep)

allDayKeywords ==
    { <<"b","i","r","t","h","d","a","y">>,
      <<"h","o","l","i","d","a","y">>,
      <<"a","n","n","i","v","e","r","s","a","r","y">>,
      <<"v","a","c","a","t","i","o","n">>,
      <<"d","a","y"," ","o","f","f">> }

isAllDayEvent(title) ==
    IF title = NoText THEN FALSE
    ELSE \E keyword \in allDayKeywords : Includes(toLowerCase(title), keyword)

isReadyForGoogleCalendar(appointment) ==
    IF isAllDayEvent(appointment.title) THEN ~Falsy(appointment.date)
    ELSE ~Falsy(appointment.date) /\ ~Falsy(appointment.time)

cleanAttendeeNames(attendees) ==
    IF attendees = <<>> THEN <<>>
    ELSE LET trimmed == [i \in 1..Len(attendees) |-> trim(attendees[i])]
         IN SelectSeqOf(trimmed, { trimmed[i] : i \in 1..Len(trimmed) } \ {<<>>})

Min3(a, b, c) == IF a <= b /\ a <= c THEN a ELSE IF b <= c THEN b ELSE c

\* a distance that knows insertion and deletion only
levenshteinDistanceNoSubstitution(str1, str2) ==
    LET matrix[i \in 0..Len(str2), j \in 0..Len(str1)] ==
            IF i = 0 THEN j
            ELSE IF j = 0 THEN i
            ELSE IF str2[i] = str1[j] THEN matrix[i - 1, j - 1]
            ELSE Min3(matrix[i, j - 1] + 1, matrix[i, j - 1] + 1, matrix[i - 1, j] + 1)
    IN matrix[Len(str2), Len(str1)]

\* the matrix of levenshteinDistance, filled row by row
levenshteinDistance(str1, str2) ==
    LET matrix[i \in 0..Len(str2), j \in 0..Len(str1)] ==
            IF i = 0 THEN j
            ELSE IF j = 0 THEN i
            ELSE IF str2[i] = str1[j] THEN matrix[i - 1, j - 1]
            ELSE Min3(matrix[i - 1, j - 1] + 1, matrix[i, j - 1] + 1, matrix[i - 1, j] + 1)
    IN matrix[Len(str2), Len(str1)]

\* calculateSimilarity(str1, str2) > 0.3, in integers:
\* (longer.length - distance) / longer.length > 3 / 10
SimilarityAboveThreshold(str1, str2) ==
    IF str1 = NoText \/ str2 = NoText THEN FALSE
    ELSE LET longer == IF Len(str1) > Len(str2) THEN str1 ELSE str2
             shorter == IF Len(str1) > Len(str2) THEN str2 ELSE str1
             distance == levenshteinDistance(longer, shorter)
         IN (Len(longer) - distance) * 10 > 3 * Len(longer)

\* ------------------------------------------------------------------------
\* track_partial_appointment
\* ------------------------------------------------------------------------
coreVars == <<configDoc, remoteAssts, threads, runs, userDoc, pending, env, turn, touched>>

\* the documents the handlers of the appointments never touch
otherDocs == <<pendingOperations, settings>>

\* a map of the given fields (a plain object)
Obj2(k1, v1, k2, v2) == [k \in {k1, k2} |-> IF k = k1 THEN v1 ELSE v2]
EmptyObj == <<>>

\* arguments of the track_partial_appointment calls of the model
TrackCalls ==
    { [event_type |-> "meeting", partial_data |-> Obj2("title", "Sync", "date", DateA),
       missing_fields |-> <<"time">>],
      [event_type |-> "meeting", partial_data |-> Obj2("date", DateA, "time", TimeA),
       missing_fields |-> <<"duration">>],
      [event_type |-> "personal", partial_data |-> EmptyObj,
       missing_fields |-> <<"date", "time">>] }

SeqIncludes(s, x) == \E i \in 1..Len(s) : s[i] = x

\* DocumentReference.set(data, {merge: true}) on a map field: a non-empty map
\* is merged key by key into the stored one, an empty map replaces it
MergeMap(old, new) ==
    IF DOMAIN new = {} THEN new
    ELSE [k \in DOMAIN old \cup DOMAIN new |-> IF k \in DOMAIN new THEN new[k] ELSE old[k]]

\* DocumentReference.set(data, {merge: true}) on partialAppointments/current
\* (lastUpdated, a server timestamp, is left out)
MergeSet(doc, data) ==
    IF ~doc.exists THEN [exists |-> TRUE] @@ data
    ELSE [exists |-> TRUE,
          eventType |-> data.eventType,
          collectedData |-> MergeMap(doc.collectedData, data.collectedData),
          missingFields |-> data.missingFields]

TrackSuggestions(missing_fields) ==
    IF SeqIncludes(missing_fields, "time")
    THEN <<"9:00 AM", "2:00 PM", "3:00 PM", "All-day event">>
    ELSE IF SeqIncludes(missing_fields, "date")
    THEN <<"Today", "Tomorrow", "Next Monday", "Next Friday">>
    ELSE IF SeqIncludes(missing_fields, "duration")
    THEN <<"30 minutes", "1 hour", "2 hours">>
    ELSE <<>>

\* what every handler records when it is entered
\* one more external call for event e in the tally of the calls a handler
\* has made to the calendar (event id |-> number of calls)
Attempt(tally, e) ==
    [x \in DOMAIN tally \cup {e} |->
        (IF x \in DOMAIN tally THEN tally[x] ELSE 0) + (IF x = e THEN 1 ELSE 0)]

Entered(name, details, accessToken) ==
    [IdleTool EXCEPT !.name = name, !.details = details, !.accessToken = accessToken,
                     !.created = tool.created,
                     !.before = [statuses |-> [i \in 1..Len(appointments) |->
                                                  appointments[i].status],
                                 partial |-> partialAppointments]]

ToolIdle == tool.pc \in {"idle", "returned"}

trackPartialAppointment ==
    /\ ToolIdle
    /\ \E details \in TrackCalls, setOk \in BOOLEAN :
          LET data == [eventType |-> details.event_type,
                       collectedData |-> details.partial_data,
                       missingFields |-> details.missing_fields]
              t == Entered("track_partial_appointment", details, FALSE)
          IN IF setOk
             THEN /\ partialAppointments' = MergeSet(partialAppointments, data)
                  /\ tool' = [t EXCEPT !.pc = "returned",
                                !.result = [success |-> TRUE, tracking |-> TRUE,
                                            event_type |-> details.event_type,
                                            collected_data |-> details.partial_data,
                                            missing_fields |-> details.missing_fields,
                                            suggestions |-> TrackSuggestions(details.missing_fields)]]
             ELSE /\ UNCHANGED partialAppointments
                  /\ tool' = [t EXCEPT !.pc = "returned",
                                !.result = [success |-> FALSE,
                                            message |-> "Failed to track appointment details"]]
    /\ UNCHANGED <<appointments, calendar, request, otherDocs>>
    /\ UNCHANGED coreVars

\* ------------------------------------------------------------------------
\* schedule_appointment and create_personal_event
\* ------------------------------------------------------------------------
\* arguments of the creation calls of the model: a timed meeting with an
\* attendee, an untimed one, an all-day title with a duration and no time, a
\* call without date, and a call without title on another date with
\* attendee names to clean, one of them twice
Details(title, date, time, duration, attendees) ==
    [title |-> title, originalInput |-> NoText, date |-> date, time |-> time,
     duration |-> duration, attendees |-> attendees]

CreateCalls ==
    { Details(TitleSync, DateA, TimeA, NoDuration, <<NameBob>>),
      Details(TitleSyncUp, DateA, Null, NoDuration, <<>>),
      Details(TitleBirthday, DateA, Null, 60, <<>>),
      Details(TitleSync, Null, TimeA, 60, <<>>),
      Details(NoText, DateB, TimeB, 45, <<NameBobPadded, NameBlank, NameBob>>) }

\* a || b || c on texts
OrText(a, b, c) == IF a # NoText THEN a ELSE IF b # NoText THEN b ELSE c

\* a duration that is kept whether or not the call has a time
DurationForAnyTime(details, default) ==
    IF details.duration = NoDuration THEN default ELSE details.duration

\* details.time ? (details.duration || default) : null
DurationFor(details, default) ==
    IF Falsy(details.time) THEN NoDuration
    ELSE IF details.duration = NoDuration THEN default ELSE details.duration

\* the document scheduleAppointment writes (meetingLink, location,
\* description and the timestamps are left out)
MeetingData(id, details) ==
    [id |-> id,
     title |-> OrText(details.title, details.originalInput, TitleMeeting),
     date |-> details.date,
     time |-> IF Falsy(details.time) THEN Null ELSE details.time,
     duration |-> DurationFor(details, 30),
     attendees |-> cleanAttendeeNames(details.attendees),
     type |-> "none",
     status |-> "scheduled",
     googleCalendarEventId |-> NoEvent,
     calendarSynced |-> FALSE,
     calendarSyncError |-> NoError]

\* the document createPersonalEvent writes: no attendees field, type
\* personal_event, default duration 60
PersonalEventData(id, details) ==
    [id |-> id,
     title |-> OrText(details.title, details.originalInput, TitlePersonalEvent),
     date |-> details.date,
     time |-> IF Falsy(details.time) THEN Null ELSE details.time,
     duration |-> DurationFor(details, 60),
     attendees |-> <<>>,
     type |-> "personal_event",
     status |-> "scheduled",
     googleCalendarEventId |-> NoEvent,
     calendarSynced |-> FALSE,
     calendarSyncError |-> NoError]

getStatusMessage(appointment) ==
    IF Falsy(appointment.date) THEN "What day should I schedule this?"
    ELSE IF Falsy(appointment.time) /\ ~isAllDayEvent(appointment.title)
    THEN "Saved locally. What time to sync with Google Calendar?"
    ELSE IF appointment.googleCalendarEventId # NoEvent THEN "In Google Calendar"
    ELSE IF isReadyForGoogleCalendar(appointment) THEN "Syncing to Google Calendar..."
    ELSE "Saved locally"

\* syncAppointmentToGoogleCalendar builds `${date}T${time}:00`; without a
\* time that is an Invalid Date and toISOString throws before the insert.
\* syncPersonalEventToGoogleCalendar builds an all-day event instead.
ReachesInsert(name, appointment) ==
    name = "create_personal_event" \/ ~Falsy(appointment.time)

\* what the collaborators can do to one creation call.  store: does the
\* set of the new document succeed; clear: does the delete of the context
\* succeed; sync: "id" the insert returns an event id and the update
\* storing it succeeds, "noid" the insert returns no id, "throw" the sync
\* function throws, "update" the update storing the id throws; "+" the
\* update storing calendarSyncError throws too
SyncFaults == {"id", "noid", "throw", "update", "throw+", "update+"}

CreateFaults(syncs, reaches) ==
    { [store |-> FALSE, clear |-> TRUE, sync |-> "id"] }
    \cup { [store |-> TRUE, clear |-> c, sync |-> s] :
              c \in BOOLEAN,
              s \in IF ~syncs THEN {"id"}
                    ELSE IF reaches THEN SyncFaults ELSE {"throw", "throw+"} }

\* an update after the insert that stores the event id without the flag
AfterSyncIdOnly(data, f) ==
    CASE f.sync = "id" ->
            [data EXCEPT !.googleCalendarEventId = data.id]
      [] f.sync \in {"throw", "update"} ->
            [data EXCEPT !.calendarSyncError = "sync error"]
      [] OTHER -> data

\* the document of a creation call after the sync section, under fault f
AfterSync(data, f) ==
    CASE f.sync = "id" ->
            [data EXCEPT !.googleCalendarEventId = data.id, !.calendarSynced = TRUE]
      [] f.sync \in {"throw", "update"} ->
            [data EXCEPT !.calendarSyncError = "sync error"]
      [] OTHER -> data

\* a handler that asks for the time as well before it writes
MissingRequiredDateOrTime(details) == Falsy(details.date) \/ Falsy(details.time)

\* `if (!details.date)`: the only field a creation call has to carry
MissingRequired(details) == Falsy(details.date)

\* an id generator that hands out the id of the last stored document again
NewIdReused == Len(appointments)

\* customDb.collection('users').doc().id: an id no document has
NewId == Len(appointments) + 1

FailedToCreate(name) ==
    IF name = "schedule_appointment" THEN "Failed to schedule appointment"
    ELSE "Failed to create personal event"

\* the body of scheduleAppointment (name schedule_appointment) and of
\* createPersonalEvent (name create_personal_event)
CreateAppointment(name) ==
    /\ ToolIdle
    /\ tool.created < MaxCreated
    /\ \E details \in CreateCalls :
          LET accessToken == request.accessToken
              t == Entered(name, details, accessToken)
              id == NewId
              data == IF name = "schedule_appointment" THEN MeetingData(id, details)
                      ELSE PersonalEventData(id, details)
              syncs == isReadyForGoogleCalendar(data) /\ accessToken
              reaches == ReachesInsert(name, data)
          IN IF MissingRequired(details)
             THEN /\ tool' = [t EXCEPT !.pc = "returned",
                                !.result = [success |-> FALSE,
                                            message |-> IF name = "schedule_appointment"
                                                        THEN "What day should I schedule this meeting?"
                                                        ELSE "What day should I schedule this?",
                                            missing_fields |-> <<"date">>,
                                            partial_data |-> details]]
                  /\ UNCHANGED <<appointments, partialAppointments, calendar>>
             ELSE \E f \in CreateFaults(syncs, reaches) :
                    IF ~f.store
                    THEN /\ tool' = [t EXCEPT !.pc = "returned",
                                       !.result = [success |-> FALSE,
                                                   message |-> FailedToCreate(name)]]
                         /\ UNCHANGED <<appointments, partialAppointments, calendar>>
                    ELSE LET attempted == syncs /\ reaches
                             inserted == attempted /\ f.sync \notin {"throw", "throw+"}
                             final == IF syncs THEN AfterSync(data, f) ELSE data
                             thrown == syncs /\ f.sync \in {"throw+", "update+"}
                         IN /\ appointments' = Append(appointments, final)
                            /\ partialAppointments' = IF f.clear THEN NoDoc
                                                      ELSE partialAppointments
                            /\ calendar' = IF inserted /\ f.sync # "noid"
                                           THEN calendar \cup {data.id} ELSE calendar
                            /\ tool' = [t EXCEPT
                                  !.pc = "returned", !.wrote = TRUE, !.created = @ + 1,
                                  !.syncCalled = syncs, !.insertCalled = attempted,
                                  !.insertThrew = attempted /\ ~inserted,
                                  !.attempts = IF attempted THEN Attempt(<<>>, data.id)
                                               ELSE <<>>,
                                  !.result =
                                     IF thrown
                                     THEN [success |-> FALSE, message |-> FailedToCreate(name)]
                                     ELSE [success |-> TRUE,
                                           message |->
                                              IF syncs /\ f.sync = "id"
                                              THEN "Added to Google Calendar"
                                              ELSE IF syncs /\ f.sync \in {"throw", "update"}
                                              THEN "Saved locally (Google sync failed)"
                                              ELSE getStatusMessage(data),
                                           appointment |->
                                              IF syncs /\ f.sync = "id" THEN final ELSE data]]
    /\ UNCHANGED <<request, otherDocs, coreVars>>

scheduleAppointment == CreateAppointment("schedule_appointment")

createPersonalEvent == CreateAppointment("create_personal_event")

\* ------------------------------------------------------------------------
\* cancel_appointment
\* ------------------------------------------------------------------------
Query(date, title, time, attendees) ==
    [date |-> date, title |-> title, time |-> time, attendees |-> attendees]

\* arguments of the cancel_appointment calls of the model: a title, a longer
\* title, a misspelt title, an unknown title with a time, an attendee, the
\* date alone, and a call without date
CancelCalls ==
    { Query(DateA, TitleSync, Null, <<>>),
      Query(DateA, TitleSyncUp, Null, <<>>),
      Query(DateA, TitleSynk, Null, <<>>),
      Query(DateA, TitleLunch, TimeA, <<>>),
      Query(DateA, NoText, Null, <<NameBo>>),
      Query(DateA, NoText, Null, <<>>),
      Query(Null, TitleSync, Null, <<>>) }

\* .where('date', '==', date).where('status', '!=', 'cancelled')
QuerySnapshot(date) ==
    { i \in 1..Len(appointments) :
         appointments[i].date = date /\ appointments[i].status # "cancelled" }

\* a title match that asks for equal titles
titleMatchEqual(appointment, details) ==
    toLowerCase(appointment.title) = toLowerCase(details.title)

titleMatch(appointment, details) ==
    Includes(toLowerCase(appointment.title), toLowerCase(details.title))

timeMatch(appointment, details) == appointment.time = details.time

attendeesMatch(appointment, details) ==
    \E i \in 1..Len(details.attendees) :
       \E j \in 1..Len(appointment.attendees) :
          Includes(toLowerCase(appointment.attendees[j]), toLowerCase(details.attendees[i]))

\* shouldCancel after the three checks of the loop body: every criterion
\* the call carries has to match
shouldCancel(appointment, details) ==
    /\ details.title # NoText => titleMatch(appointment, details)
    /\ ~Falsy(details.time) => timeMatch(appointment, details)
    /\ details.attendees # <<>> => attendeesMatch(appointment, details)

\* entry of cancelAppointments up to the query snapshot
CancelQuery ==
    /\ ToolIdle
    /\ \E details \in CancelCalls, getOk \in BOOLEAN :
          LET t == Entered("cancel_appointment", details, request.accessToken)
          IN tool' =
               IF Falsy(details.date)
               THEN [t EXCEPT !.pc = "returned",
                       !.result = [success |-> FALSE,
                                   message |-> "Failed to cancel appointments",
                                   error |-> "Date is required for cancelling appointments"]]
               ELSE IF ~getOk
               THEN [t EXCEPT !.pc = "returned",
                       !.result = [success |-> FALSE,
                                   message |-> "Failed to cancel appointments",
                                   error |-> "store error"]]
               ELSE IF QuerySnapshot(details.date) = {}
               THEN [t EXCEPT !.pc = "returned",
                       !.result = [success |-> FALSE,
                                   message |-> "No appointments found for date",
                                   error |-> "No matching appointments found"]]
               ELSE [t EXCEPT !.pc = "loop", !.todo = QuerySnapshot(details.date)]
    /\ UNCHANGED <<appointments, partialAppointments, calendar, request, otherDocs>>
    /\ UNCHANGED coreVars

\* what the collaborators can do to the cancellation of one document:
\* "ok" every call succeeds, "update" the status update throws, "calendar"
\* the external delete throws, "calendar+" so does the update storing
\* calendarSyncError
CancelFaults(external) ==
    IF external THEN {"ok", "update", "calendar", "calendar+"} ELSE {"ok", "update"}

FailedToCancel ==
    [success |-> FALSE, message |-> "Failed to cancel appointments", error |-> "store error"]

\* one iteration of `for (const doc of querySnapshot.docs)`; document ids
\* are random, so the snapshot comes in any order
CancelDoc ==
    /\ tool.pc = "loop"
    /\ \E i \in tool.todo :
          LET appointment == appointments[i]
              external == appointment.googleCalendarEventId # NoEvent /\ tool.accessToken
              cancelled == [appointments EXCEPT ![i].status = "cancelled"]
          IN IF ~shouldCancel(appointment, tool.details)
             THEN /\ tool' = [tool EXCEPT !.todo = @ \ {i}]
                  /\ UNCHANGED <<appointments, calendar>>
             ELSE \E f \in CancelFaults(external) :
                    CASE f = "update" ->
                           /\ tool' = [tool EXCEPT !.pc = "returned", !.result = FailedToCancel]
                           /\ UNCHANGED <<appointments, calendar>>
                      [] f = "ok" ->
                           /\ appointments' = cancelled
                           /\ calendar' = IF external
                                          THEN calendar \ {appointment.googleCalendarEventId}
                                          ELSE calendar
                           /\ tool' = [tool EXCEPT
                                 !.todo = @ \ {i},
                                 !.cancelledCount = @ + 1,
                                 !.attempts =
                                    IF external
                                    THEN Attempt(@, appointment.googleCalendarEventId)
                                    ELSE @]
                      [] f = "calendar" ->
                           /\ appointments' = [cancelled EXCEPT
                                                 ![i].calendarSyncError = "sync error"]
                           /\ tool' = [tool EXCEPT
                                 !.todo = @ \ {i},
                                 !.cancelledCount = @ + 1,
                                 !.calendarErrorCount = @ + 1,
                                 !.attempts = Attempt(@, appointment.googleCalendarEventId)]
                           /\ UNCHANGED calendar
                      [] f = "calendar+" ->
                           /\ appointments' = cancelled
                           /\ tool' = [tool EXCEPT
                                 !.pc = "returned", !.result = FailedToCancel,
                                 !.calendarErrorCount = @ + 1,
                                 !.attempts = Attempt(@, appointment.googleCalendarEventId)]
                           /\ UNCHANGED calendar
    /\ UNCHANGED <<partialAppointments, request, otherDocs>>
    /\ UNCHANGED coreVars

\* after the loop
CancelReturn ==
    /\ tool.pc = "loop"
    /\ tool.todo = {}
    /\ tool' = [tool EXCEPT !.pc = "returned",
                  !.result =
                     IF tool.cancelledCount = 0
                     THEN [success |-> FALSE,
                           message |-> "No matching appointments found to cancel",
                           error |-> "No appointments matched the cancellation criteria"]
                     ELSE [success |-> TRUE,
                           message |-> "Cancelled",
                           cancelledCount |-> tool.cancelledCount,
                           calendarErrorCount |-> tool.calendarErrorCount]]
    /\ UNCHANGED <<appointments, partialAppointments, calendar, request, otherDocs>>
    /\ UNCHANGED coreVars

\* ------------------------------------------------------------------------
\* Specification of the tool handlers
\* ------------------------------------------------------------------------
\* the turn machinery at rest
CoreAtRest ==
    /\ configDoc = NoConfig
    /\ remoteAssts = <<>>
    /\ threads = <<InitThread("alice", "none"), InitThread("bob", "none")>>
    /\ runs = <<>>
    /\ userDoc = [u \in Users |-> [activeThreadId |-> 0, previousThreadId |-> 0]]
    /\ pending = OneRequest({})
    /\ env = [latency |-> 0, maxCalls |-> 1, faults |-> TRUE]
    /\ turn = [u \in Users |-> IdleTurn]
    /\ touched = {}

\* the stores of a new user, and a request with or without access token
InitTools ==
    /\ CoreAtRest
    /\ appointments = <<>>
    /\ partialAppointments = NoDoc
    /\ calendar = {}
    /\ pendingOperations = NoDoc
    /\ settings = NoDoc
    /\ request \in [accessToken : BOOLEAN]
    /\ tool = IdleTool

\* the creation handlers and the slot-filling handler; a creation handler
\* never reads the appointments and cancelAppointments never touches the
\* context, so cancellation has its own specification below
NextTools ==
    \/ trackPartialAppointment
    \/ scheduleAppointment
    \/ createPersonalEvent

SpecTools == InitTools /\ [][NextTools]_vars

\* ------------------------------------------------------------------------
\* Specification of cancel_appointment
\* ------------------------------------------------------------------------
\* appointments earlier calls left in the store: a timed meeting with an
\* attendee (not synced, or synced), an untimed meeting, a meeting of another
\* date, and a meeting cancelled before
SeedKinds == {"timed", "synced", "untimed", "otherDate", "cancelled"}

Seed(id, kind) ==
    LET timed == MeetingData(id, Details(TitleSync, DateA, TimeA, NoDuration, <<NameBob>>))
    IN CASE kind = "timed" -> timed
         [] kind = "synced" -> AfterSync(timed, [sync |-> "id"])
         [] kind = "untimed" ->
               MeetingData(id, Details(TitleSyncUp, DateA, Null, NoDuration, <<>>))
         [] kind = "otherDate" ->
               AfterSync(MeetingData(id, Details(NoText, DateB, TimeB, 45,
                                                 <<NameBobPadded, NameBlank>>)),
                         [sync |-> "id"])
         [] kind = "cancelled" -> [timed EXCEPT !.status = "cancelled"]

InitCancel ==
    /\ CoreAtRest
    /\ \E n \in 1..MaxStored :
          \E kinds \in [1..n -> SeedKinds] :
             /\ appointments = [i \in 1..n |-> Seed(i, kinds[i])]
             /\ calendar = { i \in 1..n : kinds[i] \in {"synced", "otherDate"} }
    /\ partialAppointments = NoDoc
    /\ pendingOperations = NoDoc
    /\ settings = NoDoc
    /\ request \in [accessToken : BOOLEAN]
    /\ tool = IdleTool

NextCancel ==
    \/ CancelQuery
    \/ CancelDoc
    \/ CancelReturn

SpecCancel == InitCancel /\ [][NextCancel]_vars

\* ------------------------------------------------------------------------
\* Properties of the tool handlers
\* ------------------------------------------------------------------------
CreationNames == {"schedule_appointment", "create_personal_event"}

\* a creation call has returned
CreationReturned == tool.pc = "returned" /\ tool.name \in CreationNames

\* the appointment the returned creation call wrote
Created == appointments[Len(appointments)]

\* C11: the PartialAppointmentContext is deleted when and only when a
\* schedule_appointment or create_personal_event call has written an
\* Appointment: after such a call the user has no context, and after any
\* other call (a track call, a creation call that wrote nothing) a context
\* that existed before still exists
C11_ContextDeletedExactlyOnCreation ==
    tool.pc = "returned" =>
       /\ (tool.name \in CreationNames /\ tool.wrote) => ~partialAppointments.exists
       /\ (~(tool.name \in CreationNames /\ tool.wrote) /\ tool.before.partial.exists)
             => partialAppointments.exists

\* C12: after a track_partial_appointment call that succeeded, the stored
\* context holds exactly the eventKind, collectedFields and missingFields of
\* the call: no field collected before survives unless the call carries it
C12_TrackOverwrites ==
    (tool.pc = "returned" /\ tool.name = "track_partial_appointment" /\ tool.result.success)
       => /\ partialAppointments.exists
          /\ partialAppointments.eventType = tool.details.event_type
          /\ partialAppointments.collectedData = tool.details.partial_data
          /\ partialAppointments.missingFields = tool.details.missing_fields

C14_SyncOutcomeRecorded ==
    (CreationReturned /\ tool.wrote /\ tool.syncCalled)
       => \/ Created.calendarSynced /\ Created.googleCalendarEventId # NoEvent
          \/ ~Created.calendarSynced /\ Created.calendarSyncError # NoError

\* C15: a failing external calendar insert never fails the creation: the
\* call returns success=true and the Appointment is stored with status
\* scheduled
C15_InsertFailureKeepsCreation ==
    (CreationReturned /\ tool.insertThrew)
       => /\ tool.result.success
          /\ Len(appointments) = Len(tool.before.statuses) + 1
          /\ Created.status = "scheduled"

\* C16: the external calendar insert is attempted exactly when the created
\* record is sync-eligible (an all-day title and a date, or a date and a
\* time) and an access token was supplied; otherwise no external call is
\* made and the record stays not-synced with no external event reference
C16_InsertIffEligibleAndToken ==
    (CreationReturned /\ tool.wrote)
       => LET eligible == \/ isAllDayEvent(Created.title) /\ ~Falsy(Created.date)
                          \/ ~Falsy(Created.date) /\ ~Falsy(Created.time)
          IN /\ tool.insertCalled <=> (eligible /\ tool.accessToken)
             /\ ~(eligible /\ tool.accessToken)
                   => /\ ~Created.calendarSynced
                      /\ Created.googleCalendarEventId = NoEvent

\* ------------------------------------------------------------------------
\* Properties of cancel_appointment
\* ------------------------------------------------------------------------
\* a cancel_appointment call with a date is in its loop or has returned
CancelCall ==
    tool.name = "cancel_appointment" /\ tool.pc \in {"loop", "returned"}
       /\ ~Falsy(tool.details.date)

\* the call has returned and no store call of it failed
CancelCompleted ==
    CancelCall /\ tool.pc = "returned" /\ tool.result # FailedToCancel

\* the appointments of the call's date that were not cancelled when it began
Candidates ==
    { i \in 1..Len(appointments) :
         appointments[i].date = tool.details.date /\ tool.before.statuses[i] # "cancelled" }

\* the appointments the call has cancelled
CancelledByCall ==
    { i \in 1..Len(appointments) :
         tool.before.statuses[i] # "cancelled" /\ appointments[i].status = "cancelled" }

\* the matching rule of the claim: any one criterion is enough
AnyCriterionMatches(appointment, details) ==
    \/ /\ details.title # NoText
       /\ \/ Includes(toLowerCase(appointment.title), toLowerCase(details.title))
          \/ Includes(toLowerCase(details.title), toLowerCase(appointment.title))
    \/ ~Falsy(details.time) /\ appointment.time = details.time
    \/ attendeesMatch(appointment, details)

\* C17: cancel_appointment cancels an appointment of the date iff it is not
\* cancelled already and at least one criterion matches: title containment
\* in either direction (case-insensitive), equality with the given time, or
\* a query attendee that is a case-insensitive substring of an attendee
C17_CancelsIffAnyCriterion ==
    CancelCompleted =>
       \A i \in 1..Len(appointments) :
          i \in CancelledByCall
             <=> (i \in Candidates /\ AnyCriterionMatches(appointments[i], tool.details))

\* the call carries a title and no other criterion
TitleOnly ==
    tool.details.title # NoText /\ Falsy(tool.details.time) /\ tool.details.attendees = <<>>

\* the candidates whose title equals the query title
EqualTitle == { i \in Candidates : appointments[i].title = tool.details.title }

\* the candidates whose title contains the query title
ContainingTitle ==
    { i \in Candidates :
         Includes(toLowerCase(appointments[i].title), toLowerCase(tool.details.title)) }

\* C18 (as stated): a call whose title equals the title of exactly one
\* stored appointment of the date cancels exactly that appointment; every
\* other appointment keeps its status
C18_ExactTitleCancelsOne ==
    (CancelCompleted /\ TitleOnly /\ Cardinality(EqualTitle) = 1)
       => CancelledByCall = EqualTitle

\* C18 (amended): a call with a title and no other criterion changes the
\* status of no appointment but the not yet cancelled ones of the date whose
\* title contains the query title, the one with the equal title among them;
\* when it returns success it has cancelled all of these
C18_TitleCancelsContaining ==
    (CancelCall /\ TitleOnly)
       => /\ CancelledByCall \subseteq ContainingTitle
          /\ EqualTitle \subseteq ContainingTitle
          /\ \A i \in 1..Len(appointments) :
                i \notin CancelledByCall => appointments[i].status = tool.before.statuses[i]
          /\ (tool.pc = "returned" /\ tool.result.success)
                => CancelledByCall = ContainingTitle

\* a call with the title of one appointment has cancelled it and another
\* one whose title contains that title
C18_Witness ==
    /\ CancelCompleted /\ TitleOnly
    /\ tool.result.success
    /\ Cardinality(EqualTitle) = 1
    /\ Cardinality(CancelledByCall) = 2
    /\ EqualTitle \subseteq CancelledByCall

\* some candidate's title is similar enough to the query title to be offered
\* as a suggestion
SimilarCandidate ==
    \E i \in Candidates :
       SimilarityAboveThreshold(toLowerCase(tool.details.title),
                                toLowerCase(appointments[i].title))

\* C19: a call whose title matches no candidate by title, time or attendee
\* but is more than 0.30 similar to a candidate's title returns success=false
\* with suggestions and changes no record's status
C19_SimilarTitleSuggests ==
    (/\ CancelCompleted
     /\ tool.details.title # NoText
     /\ \A i \in Candidates : ~AnyCriterionMatches(appointments[i], tool.details)
     /\ SimilarCandidate)
       => /\ ~tool.result.success
          /\ "suggestions" \in DOMAIN tool.result
          /\ CancelledByCall = {}

\* the candidates the handler cancels
Matched == { i \in Candidates : shouldCancel(appointments[i], tool.details) }

\* C20: when a call matches several appointments their local status change
\* is one atomic batch: in every state, whatever fails midway, the matched
\* appointments are all cancelled or none of them is
C20_CancelAtomic ==
    CancelCall => (CancelledByCall = {} \/ CancelledByCall = Matched)

\* ------------------------------------------------------------------------
\* cancel_all_appointments_for_date
\* ------------------------------------------------------------------------
\* dates are YYYY-MM-DD strings: the order of the store is the order of days
DateRank(d) == IF d = DateA THEN 1 ELSE 2

\* arguments of the bulk calls of the model: one day, a range of two days,
\* an empty range, and a call without start_date
BulkCalls ==
    { [start_date |-> DateA, end_date |-> Null],
      [start_date |-> DateA, end_date |-> DateB],
      [start_date |-> DateB, end_date |-> DateA],
      [start_date |-> Null, end_date |-> Null] }

\* a query without the upper end of the range
RangeSnapshotOpenEnded(startDate, endDate) ==
    { i \in 1..Len(appointments) :
         /\ DateRank(appointments[i].date) >= DateRank(startDate)
         /\ appointments[i].status # "cancelled" }

\* .where('date', '>=', startDate).where('date', '<=', endDate)
\* .where('status', '!=', 'cancelled')
RangeSnapshot(startDate, endDate) ==
    { i \in 1..Len(appointments) :
         /\ DateRank(appointments[i].date) >= DateRank(startDate)
         /\ DateRank(appointments[i].date) <= DateRank(endDate)
         /\ appointments[i].status # "cancelled" }

\* the event ids of every stored appointment, in the range or not
googleEventIdsOfAll(appts, ids) ==
    { appts[i].googleCalendarEventId : i \in 1..Len(appts) } \ {NoEvent}

\* googleEventIds: the event ids of the documents of the snapshot
googleEventIds(appts, ids) ==
    { appts[i].googleCalendarEventId : i \in ids } \ {NoEvent}

\* a batch that deletes the documents (batch.delete)
BatchDelete(appts, ids) ==
    SelectSeqOf(appts, { appts[i] : i \in (1..Len(appts)) \ ids })

\* the batch of updates {status: 'cancelled'} on the documents ids
BatchUpdate(appts, ids) ==
    [i \in 1..Len(appts) |->
        IF i \in ids THEN [appts[i] EXCEPT !.status = "cancelled"] ELSE appts[i]]

\* cancelAllAppointmentsForDate up to batch.commit()
BulkCommit ==
    /\ ToolIdle
    /\ \E details \in BulkCalls, getOk \in BOOLEAN, commitOk \in BOOLEAN :
          LET t == Entered("cancel_all_appointments_for_date", details, request.accessToken)
              startDate == details.start_date
              endDate == IF Falsy(details.end_date) THEN details.start_date
                         ELSE details.end_date
              docs == RangeSnapshot(startDate, endDate)
          IN IF Falsy(startDate) \/ ~getOk
             THEN /\ tool' = [t EXCEPT !.pc = "returned", !.result = FailedToCancel]
                  /\ UNCHANGED appointments
             ELSE IF docs = {}
             THEN /\ tool' = [t EXCEPT !.pc = "returned",
                                !.result = [success |-> TRUE,
                                            message |-> "No appointments found to cancel",
                                            cancelledCount |-> 0]]
                  /\ UNCHANGED appointments
             ELSE IF ~commitOk
             THEN /\ tool' = [t EXCEPT !.pc = "returned", !.result = FailedToCancel]
                  /\ UNCHANGED appointments
             ELSE /\ appointments' = BatchUpdate(appointments, docs)
                  /\ tool' = [t EXCEPT
                        !.pc = "calendar",
                        !.cancelledCount = Cardinality(docs),
                        !.todo = googleEventIds(appointments, docs)]
    /\ UNCHANGED <<partialAppointments, calendar, request, otherDocs>>
    /\ UNCHANGED coreVars

\* bulkCancelGoogleCalendarEvents and the return: every delete fails or
\* succeeds on its own
BulkCalendar ==
    /\ tool.pc = "calendar"
    /\ \E failed \in SUBSET tool.todo :
          /\ (tool.todo = {} \/ ~tool.accessToken) => failed = {}
          /\ LET called == tool.todo # {} /\ tool.accessToken
                 successful == IF called THEN tool.todo \ failed ELSE {}
             IN /\ calendar' = calendar \ successful
                /\ tool' = [tool EXCEPT
                      !.pc = "returned",
                      !.calendarErrorCount = Cardinality(failed),
                      !.attempts = [e \in (IF called THEN tool.todo ELSE {}) |-> 1],
                      !.result = [success |-> TRUE,
                                  message |-> IF failed # {}
                                              THEN "Successfully cancelled (calendar sync errors)"
                                              ELSE "Successfully cancelled",
                                  cancelledCount |-> tool.cancelledCount,
                                  calendarSync |-> [successful |-> Cardinality(successful),
                                                    failed |-> Cardinality(failed)]]]
    /\ UNCHANGED <<appointments, partialAppointments, request, otherDocs>>
    /\ UNCHANGED coreVars

\* ------------------------------------------------------------------------
\* handleFunctionCall with a name outside the catalog
\* ------------------------------------------------------------------------
\* the default branch of the switch throws, the catch returns the failure
UnknownFunction ==
    /\ ToolIdle
    /\ tool' = [Entered(UnknownTool, <<>>, request.accessToken) EXCEPT
                  !.pc = "returned",
                  !.result = handleFunctionCall(UnknownTool, <<>>, TRUE)]
    /\ UNCHANGED <<appointments, partialAppointments, calendar, request, otherDocs>>
    /\ UNCHANGED coreVars

\* ------------------------------------------------------------------------
\* Specification of cancel_all_appointments_for_date
\* ------------------------------------------------------------------------
NextBulk ==
    \/ BulkCommit
    \/ BulkCalendar

\* the bulk cancellation on the stores earlier calls left
SpecBulk == InitCancel /\ [][NextBulk]_vars

\* ------------------------------------------------------------------------
\* Specification of the life of an appointment: every handler that
\* writes appointments, and the call of an unknown tool
\* ------------------------------------------------------------------------
\* a user without a connected calendar who has one appointment (cancelled
\* before, or scheduled), a context of an unfinished conversation, a
\* pending bulk cancellation and an availability record
InitLife ==
    /\ CoreAtRest
    /\ \E kind \in {"cancelled", "timed"} :
          /\ appointments = <<Seed(1, kind)>>
          /\ calendar = {}
    /\ partialAppointments =
          [exists |-> TRUE, eventType |-> "meeting",
           collectedData |-> Obj2("title", "Sync", "date", DateA),
           missingFields |-> <<"time">>]
    /\ pendingOperations =
          [exists |-> TRUE, type |-> "bulk_cancellation", date |-> DateA,
           cancellationType |-> "all"]
    /\ settings = [exists |-> TRUE, monday |-> [start |-> "09:00", end |-> "17:00"]]
    /\ request = [accessToken |-> FALSE]
    /\ tool = IdleTool

NextLife ==
    \/ scheduleAppointment
    \/ createPersonalEvent
    \/ CancelQuery
    \/ CancelDoc
    \/ CancelReturn
    \/ BulkCommit
    \/ BulkCalendar
    \/ UnknownFunction

SpecLife == InitLife /\ [][NextLife]_vars


\* ------------------------------------------------------------------------
\* Properties of the cancellations and of the life of an appointment
\* ------------------------------------------------------------------------
\* a cancel_appointment call has returned after an external event deletion
\* of it failed
CancelReturnedAfterCalendarError ==
    tool.name = "cancel_appointment" /\ tool.pc = "returned"
       /\ tool.calendarErrorCount > 0

\* C21: a failing external event deletion never rolls back a local
\* cancellation: the appointments the call cancelled stay cancelled, and the
\* call returns success with the count of the cancelled appointments and
\* the number of calendar sync errors.
C21_CalendarFailureKeepsCancel ==
    CancelReturnedAfterCalendarError =>
       /\ \A i \in 1..Len(appointments) :
             tool.before.statuses[i] = "cancelled" => appointments[i].status = "cancelled"
       /\ CancelledByCall # {}
       /\ tool.result.success
       /\ tool.result.cancelledCount = Cardinality(CancelledByCall)
       /\ tool.result.calendarErrorCount = tool.calendarErrorCount


BulkName == "cancel_all_appointments_for_date"

\* the appointments the claim counts as N for a call: inside
\* [start_date, end_date], end_date defaulting to start_date, not cancelled
InRangeNotCancelled(details) ==
    LET last == IF details.end_date = Null THEN details.start_date ELSE details.end_date
    IN { i \in 1..Len(appointments) :
            /\ DateRank(details.start_date) <= DateRank(appointments[i].date)
            /\ DateRank(appointments[i].date) <= DateRank(last)
            /\ appointments[i].status # "cancelled" }

\* C22: cancel_all_appointments_for_date over [start_date, end_date] (end
\* defaults to start) with N appointments of the range not cancelled sets
\* exactly these N to cancelled in one step, leaves every other appointment
\* as it was, and returns success with cancelledCount = N, also for N = 0;
\* a call whose store operation fails changes nothing.
C22_BulkCancelsExactlyRange ==
    [][ /\ (ToolIdle /\ tool'.name = BulkName) =>
             LET N == InRangeNotCancelled(tool'.details)
             IN \/ /\ tool'.pc = "returned"
                   /\ tool'.result = FailedToCancel
                   /\ UNCHANGED appointments
                \/ /\ N = {}
                   /\ tool'.pc = "returned"
                   /\ tool'.result.success
                   /\ tool'.result.cancelledCount = 0
                   /\ UNCHANGED appointments
                \/ /\ N # {}
                   /\ tool'.pc = "calendar"
                   /\ tool'.cancelledCount = Cardinality(N)
                   /\ appointments' =
                         [i \in 1..Len(appointments) |->
                             IF i \in N THEN [appointments[i] EXCEPT !.status = "cancelled"]
                             ELSE appointments[i]]
        /\ (tool.name = BulkName /\ tool.pc = "calendar") =>
             /\ UNCHANGED appointments
             /\ tool'.pc = "returned"
             /\ tool'.result.success
             /\ tool'.result.cancelledCount = Cardinality(CancelledByCall)
      ]_vars

\* a call over one date has cancelled the one appointment of that date and
\* has returned; the appointment of the other date is still scheduled
C22_Witness ==
    /\ tool.name = BulkName /\ tool.pc = "returned"
    /\ tool.details = [start_date |-> DateA, end_date |-> Null]
    /\ tool.result.success /\ tool.result.cancelledCount = 1
    /\ Len(appointments) = 2
    /\ \E i, j \in 1..2 :
          /\ appointments[i].date = DateA /\ appointments[i].status = "cancelled"
          /\ tool.before.statuses[i] = "scheduled"
          /\ appointments[j].date = DateB /\ appointments[j].status = "scheduled"


\* the ids of the stored appointments
StoredIds(appts) == { appts[i].id : i \in 1..Len(appts) }

\* the ids of the stored appointments that are cancelled
CancelledIds(appts) ==
    { appts[i].id : i \in { k \in 1..Len(appts) : appts[k].status = "cancelled" } }

\* C23: cancelled is terminal: no step of any handler gives a cancelled
\* appointment another status, and a creation after it, also one with the
\* same fields, writes a new scheduled record under an id no stored record
\* has, so a cancelled appointment with that id stays cancelled.
C23_CancelledIsTerminal ==
    [][ /\ CancelledIds(appointments) \subseteq CancelledIds(appointments')
        /\ \A j \in 1..Len(appointments') :
              appointments'[j].id \notin StoredIds(appointments) =>
                 appointments'[j].status = "scheduled"
        /\ \A j \in 1..Len(appointments') :
              \A k \in 1..Len(appointments') :
                 appointments'[j].id = appointments'[k].id => j = k
      ]_vars

\* after a cancelled appointment a creation with the same title, date,
\* time and attendees has returned: both records exist, under two ids
C23_Witness ==
    /\ CreationReturned /\ tool.result.success
    /\ Len(appointments) = 2
    /\ appointments[1].status = "cancelled"
    /\ appointments[2].status = "scheduled"
    /\ appointments[2].id # appointments[1].id
    /\ appointments[2].title = appointments[1].title
    /\ appointments[2].date = appointments[1].date
    /\ appointments[2].time = appointments[1].time
    /\ appointments[2].attendees = appointments[1].attendees

C25_NoTimeNoDuration ==
    \A i \in 1..Len(appointments) :
       Falsy(appointments[i].time) => appointments[i].duration = NoDuration

\* create_personal_event has stored a record for a call that gave a
\* duration and no time
C25_Witness ==
    /\ CreationReturned /\ tool.name = "create_personal_event"
    /\ tool.wrote /\ tool.result.success
    /\ tool.details.duration = 60 /\ Falsy(tool.details.time)
    /\ Created.time = Null /\ Created.duration = NoDuration


\* a sequence without the later occurrences of its elements
RECURSIVE WithoutDuplicates(_)
WithoutDuplicates(s) ==
    IF s = <<>> THEN <<>>
    ELSE LET front == WithoutDuplicates(SubSeq(s, 1, Len(s) - 1))
             last == s[Len(s)]
         IN IF \E i \in 1..Len(front) : front[i] = last THEN front
            ELSE Append(front, last)

\* the attendees the claim expects for the names of a call
TrimmedDistinctNames(names) ==
    WithoutDuplicates(
       SelectSeqOf([i \in 1..Len(names) |-> trim(names[i])],
                   { trim(names[i]) : i \in 1..Len(names) } \ {<<>>}))

\* C26: the attendees stored by schedule_appointment are the names of the
\* call, trimmed, without the empty names and without duplicates, in their
\* original order.
C26_AttendeesTrimmedDistinct ==
    (CreationReturned /\ tool.name = "schedule_appointment" /\ tool.wrote) =>
       Created.attendees = TrimmedDistinctNames(tool.details.attendees)


\* the three kinds of message the claim names
MessageKind(message) ==
    CASE message = "Added to Google Calendar" -> "added to calendar"
      [] message = "Saved locally (Google sync failed)" -> "saved locally, sync failed"
      [] message \in {"Saved locally",
                      "Saved locally. What time to sync with Google Calendar?"} ->
            "saved locally"
      [] OTHER -> "none"

\* C27: the message of a successful creation is of one of three kinds:
\* 'added to calendar' iff the record was synced, 'saved locally, sync
\* failed' iff a sync attempt failed, 'saved locally' in every other case.
C27_MessageReflectsSync ==
    (CreationReturned /\ tool.wrote /\ tool.result.success) =>
       MessageKind(tool.result.message) =
          IF Created.calendarSynced THEN "added to calendar"
          ELSE IF Created.calendarSyncError # NoError THEN "saved locally, sync failed"
          ELSE "saved locally"


\* the suggestions the claim expects: those of the first missing field
FirstFieldSuggestions(missing_fields) ==
    IF missing_fields = <<>> THEN <<>>
    ELSE CASE missing_fields[1] = "time" ->
                 <<"9:00 AM", "2:00 PM", "3:00 PM", "All-day event">>
           [] missing_fields[1] = "date" ->
                 <<"Today", "Tomorrow", "Next Monday", "Next Friday">>
           [] missing_fields[1] = "duration" ->
                 <<"30 minutes", "1 hour", "2 hours">>
           [] OTHER -> <<>>

\* C28: track_partial_appointment returns the suggestions of the first
\* element of missing_fields, for every ordering of the missing fields.
C28_SuggestionsByFirstMissing ==
    (tool.name = "track_partial_appointment" /\ tool.pc = "returned"
        /\ tool.result.success) =>
       tool.result.suggestions = FirstFieldSuggestions(tool.details.missing_fields)


\* C29: handleFunctionCall never throws across the dispatch boundary: every
\* call ends with a structured result, and a call of a tool name outside
\* the catalog ends with success = FALSE and leaves every Appointment, the
\* PartialAppointmentContext, the PendingBulkCancellation and the
\* availability record unchanged.
C29_UnknownToolFailsCleanly ==
    [][ /\ tool'.pc = "returned" => tool'.result.success \in BOOLEAN
        /\ (tool'.name \notin ToolCatalog \cup {"none"} /\ tool' # tool) =>
             /\ tool'.pc = "returned"
             /\ ~tool'.result.success
             /\ tool'.result.error = "Unknown function"
             /\ UNCHANGED <<appointments, partialAppointments, pendingOperations,
                            settings, calendar>>
      ]_vars

\* a tool outside the catalog was called after a creation, on stores that
\* hold appointments, a context, a pending cancellation and an availability
C29_Witness ==
    /\ tool.name = UnknownTool /\ tool.pc = "returned"
    /\ ~tool.result.success
    /\ Len(appointments) = 2
    /\ partialAppointments.exists
    /\ pendingOperations.exists
    /\ settings.exists


\* the turn of u has returned after its run ended completed and after the
\* list of the thread's messages was read
ReturnedCompleted(u) ==
    Returned(u) /\ RunStartedBy(u) /\ turn[u].status = "completed"
       /\ turn[u].result.kind # "caught"

UserFacingMessages == {MsgTakingLonger, MsgConfiguration, MsgError, MsgFallback}

\* C31: no result of a failed turn carries raw internal error text: its
\* message is one of the fixed user-facing strings and no field of it holds
\* the message of the internal or remote error.
C31_NoRawErrorText ==
    \A u \in Users :
        (Returned(u) /\ ~turn[u].result.success) =>
            /\ turn[u].result.message \in UserFacingMessages
            /\ turn[u].result.error = "none"

\* the turn of u has ended: processVoiceCommand returned or threw
Ended(u) == turn[u].no > 0 /\ turn[u].pc = "idle"

\* C32: a turn of a request with a user id and a non-blank command never
\* throws to the transport layer: it ends with a returned result, and with
\* success = FALSE after every failure.
C32_TurnNeverThrows ==
    \A u \in Users :
        Ended(u) =>
            /\ Returned(u)
            /\ turn[u].err # "none" => ~turn[u].result.success


\* ------------------------------------------------------------------------
\* calculateSimilarity, the pure function of the fuzzy title matching
\* ------------------------------------------------------------------------
MaxLen == 3

Alphabet == {"a", "b", "c"}

\* the strings over the alphabet up to the bound, the empty one included
Strings == {<<>>} \cup SeqsUpTo(Alphabet, MaxLen)

\* calculateSimilarity: the quotient (longer.length - distance) /
\* longer.length as the pair <<numerator, denominator>>; 0.0 is <<0, 1>>
calculateSimilarity(str1, str2) ==
    IF str1 = NoText \/ str2 = NoText THEN <<0, 1>>
    ELSE LET longer == IF Len(str1) > Len(str2) THEN str1 ELSE str2
             shorter == IF Len(str1) > Len(str2) THEN str2 ELSE str1
             distance == levenshteinDistance(longer, shorter)
         IN <<Len(longer) - distance, Len(longer)>>

\* one call for every pair of strings
InitSimilarity ==
    /\ CoreAtRest
    /\ appointments = <<>>
    /\ partialAppointments = NoDoc
    /\ calendar = {}
    /\ pendingOperations = NoDoc
    /\ settings = NoDoc
    /\ request \in [accessToken : {FALSE}, str1 : Strings, str2 : Strings]
    /\ tool = IdleTool

SimilarityCall ==
    /\ tool.pc = "idle"
    /\ tool' = [Entered("calculateSimilarity", request, FALSE) EXCEPT
                  !.pc = "returned",
                  !.result = calculateSimilarity(request.str1, request.str2)]
    /\ UNCHANGED <<appointments, partialAppointments, calendar, request, otherDocs>>
    /\ UNCHANGED coreVars

SpecSimilarity == InitSimilarity /\ [][SimilarityCall]_vars

\* the edit distance by its definition: the fewest insertions, deletions
\* and substitutions of one character
RECURSIVE EditDistance(_, _)
EditDistance(a, b) ==
    IF a = <<>> THEN Len(b)
    ELSE IF b = <<>> THEN Len(a)
    ELSE Min3(EditDistance(Tail(a), b) + 1,
              EditDistance(a, Tail(b)) + 1,
              EditDistance(Tail(a), Tail(b)) + (IF Head(a) = Head(b) THEN 0 ELSE 1))

MaxOf(m, n) == IF m > n THEN m ELSE n

SimilarityReturned == tool.name = "calculateSimilarity" /\ tool.pc = "returned"

\* C33: calculateSimilarity(a, b) is 1 - lev(a, b) / max(|a|, |b|) with the
\* true edit distance lev; it is 1 for equal non-empty strings, 0 if either
\* string is empty, the same for (b, a), and between 0 and 1.
C33_SimilarityIsNormalisedDistance ==
    SimilarityReturned =>
       LET a == request.str1
           b == request.str2
           s == tool.result
           longest == MaxOf(Len(a), Len(b))
       IN /\ s[2] > 0 /\ 0 <= s[1] /\ s[1] <= s[2]
          /\ (a # <<>> /\ b # <<>>) =>
                s[1] * longest = (longest - EditDistance(a, b)) * s[2]
          /\ (a = b /\ a # <<>>) => s[1] = s[2]
          /\ (a = <<>> \/ b = <<>>) => s[1] = 0
          /\ LET r == calculateSimilarity(b, a) IN s[1] * r[2] = r[1] * s[2]

\* the similarity of two strings of the same length that differ in one
\* character was computed
C33_Witness ==
    /\ SimilarityReturned
    /\ Len(request.str1) = MaxLen /\ Len(request.str2) = MaxLen
    /\ EditDistance(request.str1, request.str2) = 1
    /\ tool.result = <<MaxLen - 1, MaxLen>>


\* ------------------------------------------------------------------------
\* Specification of the calendar calls: the creations and the cancellations
\* of a user with a connected calendar
\* ------------------------------------------------------------------------
\* the user's earlier calls have left MaxCreated synced appointments; one
\* more appointment can be created
InitSync ==
    /\ CoreAtRest
    /\ appointments = [i \in 1..MaxCreated |-> Seed(i, "synced")]
    /\ calendar = 1..MaxCreated
    /\ partialAppointments = NoDoc
    /\ pendingOperations = NoDoc
    /\ settings = NoDoc
    /\ request = [accessToken |-> TRUE]
    /\ tool = [IdleTool EXCEPT !.created = MaxCreated - 1]

NextSync ==
    \/ scheduleAppointment
    \/ createPersonalEvent
    \/ CancelQuery
    \/ CancelDoc
    \/ CancelReturn
    \/ BulkCommit
    \/ BulkCalendar

SpecSync == InitSync /\ [][NextSync]_vars

\* the stored appointments that carry the event id e or, for an insert that
\* recorded no id, the document id e
RecordsOf(e) ==
    { i \in 1..Len(appointments) :
         appointments[i].googleCalendarEventId = e \/ appointments[i].id = e }

\* C34: an external calendar call is made only after the local write: an
\* insert only by a creation that has stored its Appointment, a delete only
\* for an event of a record that is stored as cancelled, by the single and
\* by the bulk cancellation; and a tool call makes at most one call for an
\* event.
C34_CalendarCallAfterLocalWrite ==
    \A e \in DOMAIN tool.attempts :
       /\ tool.attempts[e] = 1
       /\ tool.name \in CreationNames =>
             /\ tool.wrote
             /\ Created.id = e
       /\ tool.name \in {"cancel_appointment", BulkName} =>
             /\ RecordsOf(e) # {}
             /\ \A i \in RecordsOf(e) : appointments[i].status = "cancelled"

\* a creation has inserted an event and a later bulk cancellation has
\* asked for its deletion
C34_Witness ==
    /\ tool.name = BulkName /\ tool.pc = "returned"
    /\ tool.created = MaxCreated
    /\ \E e \in DOMAIN tool.attempts :
          appointments[Len(appointments)].googleCalendarEventId = e


\* ------------------------------------------------------------------------
\* Specification of the turns of a user in an unfinished conversation
\* ------------------------------------------------------------------------
\* a PartialAppointmentContext as track_partial_appointment stores it
StoredContext ==
    [exists |-> TRUE, eventType |-> "meeting",
     collectedData |-> Obj2("title", "Sync", "date", DateA),
     missingFields |-> <<"time">>]

\* one request of a user with or without a stored context: the first one
\* on a fast network, or one that finds the run of an earlier turn active
InitContext ==
    /\ \/ InitCore("none", "none", <<NoConfig, <<>>>>, OneRequest({"alice"}),
                   [latency |-> 0, maxCalls |-> 1, faults |-> TRUE])
       \/ InitCore("in_progress", "none",
                   <<[exists |-> TRUE, assistantId |-> 1, model |-> ExpectedModel],
                     <<Assistant(ExpectedModel, FALSE)>>>>,
                   OneRequest({"alice"}),
                   [latency |-> SlowCall, maxCalls |-> 1, faults |-> TRUE])
    /\ appointments = <<>>
    /\ partialAppointments \in {NoDoc, StoredContext}
    /\ calendar = {}
    /\ pendingOperations = NoDoc
    /\ settings = NoDoc
    /\ request = [accessToken |-> FALSE]
    /\ tool = IdleTool

SpecContext == InitContext /\ [][Next]_vars

\* the content the claim expects for the message of a turn
ExpectedContent ==
    [contextInfo |-> IF partialAppointments.exists
                     THEN [eventType |-> partialAppointments.eventType,
                           collectedData |-> partialAppointments.collectedData,
                           missingFields |-> partialAppointments.missingFields]
                     ELSE <<>>,
     text |-> trim(CommandText)]

\* the messages of user u's current turn on any thread
TurnMessages(u) ==
    UNION { { m \in MessagesOf(t) : m.role = "user" /\ m.by = u /\ m.n = turn[u].no } :
            t \in 1..Len(threads) }

\* C35: the content appended to the thread in a turn is the trimmed command
\* prefixed with the summary of the user's PartialAppointmentContext when
\* one exists at the start of the turn, and the trimmed command alone when
\* none exists, in the first append, the retry and the append on a
\* replacement thread.
C35_AppendedContent ==
    \A u \in Users :
        turn[u].no > 0 => \A m \in TurnMessages(u) : m.content = ExpectedContent


\* ------------------------------------------------------------------------
\* bulkCancelGoogleCalendarEvents, call by call
\* ------------------------------------------------------------------------
MaxEvents == 12

\* const batchSize = 10
batchSize == 10

\* a bulk deletion of 0 to MaxEvents events; event i of the call has id i
InitGroups ==
    /\ CoreAtRest
    /\ appointments = <<>>
    /\ partialAppointments = NoDoc
    /\ calendar = {}
    /\ pendingOperations = NoDoc
    /\ settings = NoDoc
    /\ \E n \in 0..MaxEvents :
          request = [accessToken |-> TRUE, eventIds |-> [k \in 1..n |-> k]]
    /\ tool = [name |-> "bulkCancelGoogleCalendarEvents", pc |-> "start", i |-> 0,
               inFlight |-> {}, successful |-> <<>>, failed |-> <<>>,
               result |-> <<>>]

toolStores == <<appointments, partialAppointments, calendar, request, otherDocs>>

\* if (eventIds.length === 0) return { successful: [], failed: [] }
ReturnEmpty ==
    /\ tool.pc = "start"
    /\ Len(request.eventIds) = 0
    /\ tool' = [tool EXCEPT !.pc = "returned",
                            !.result = [successful |-> <<>>, failed |-> <<>>]]
    /\ UNCHANGED toolStores
    /\ UNCHANGED coreVars

\* a loop that does not wait for Promise.all
GroupMayStartAnytime == TRUE

\* await Promise.all(...): the body of the loop runs again only when every
\* call of the batch has settled
GroupMayStart == tool.inFlight = {}

\* one iteration of the for loop up to the await: batch.map starts the
\* delete call of every event id of eventIds.slice(i, i + batchSize)
StartGroup ==
    /\ tool.pc \in {"start", "loop"}
    /\ tool.i < Len(request.eventIds)
    /\ GroupMayStart
    /\ LET last == IF tool.i + batchSize < Len(request.eventIds)
                   THEN tool.i + batchSize ELSE Len(request.eventIds)
           batch == { request.eventIds[k] : k \in (tool.i + 1)..last }
       IN tool' = [tool EXCEPT !.pc = "loop", !.i = @ + batchSize,
                               !.inFlight = @ \cup batch]
    /\ UNCHANGED toolStores
    /\ UNCHANGED coreVars

\* one calendar.events.delete settles: successful.push or failed.push
DeleteSettles ==
    /\ tool.pc = "loop"
    /\ \E eventId \in tool.inFlight, ok \in BOOLEAN :
          tool' = [tool EXCEPT
                     !.inFlight = @ \ {eventId},
                     !.successful = IF ok THEN Attempt(@, eventId) ELSE @,
                     !.failed = IF ok THEN @ ELSE Attempt(@, eventId)]
    /\ UNCHANGED toolStores
    /\ UNCHANGED coreVars

\* after the last group: return { successful, failed }
ReturnTallies ==
    /\ tool.pc = "loop"
    /\ tool.i >= Len(request.eventIds)
    /\ tool.inFlight = {}
    /\ tool' = [tool EXCEPT !.pc = "returned",
                            !.result = [successful |-> tool.successful,
                                        failed |-> tool.failed]]
    /\ UNCHANGED toolStores
    /\ UNCHANGED coreVars

NextGroups ==
    \/ ReturnEmpty
    \/ StartGroup
    \/ DeleteSettles
    \/ ReturnTallies

SpecGroups == InitGroups /\ [][NextGroups]_vars

\* the ids of the input
InputIds == { request.eventIds[k] : k \in 1..Len(request.eventIds) }

\* C36: the bulk external deletion runs in consecutive groups of width 10:
\* never more than 10 delete calls are in flight, calls are started only
\* when no call of an earlier group is in flight, and when the function
\* returns every input event id is in exactly one of the two tallies,
\* once.
C36_GroupsOfTen ==
    [][ /\ Cardinality(tool'.inFlight) <= 10
        /\ tool'.inFlight \ tool.inFlight # {} =>
              /\ tool.inFlight = {}
              /\ \A e \in InputIds :
                    e \in tool'.inFlight \/ e \in DOMAIN tool.successful
                       \/ e \in DOMAIN tool.failed
                       \/ \A f \in tool'.inFlight : e > f
        /\ tool'.pc = "returned" =>
              /\ DOMAIN tool'.result.successful \cup DOMAIN tool'.result.failed = InputIds
              /\ DOMAIN tool'.result.successful \cap DOMAIN tool'.result.failed = {}
              /\ \A e \in DOMAIN tool'.result.successful : tool'.result.successful[e] = 1
              /\ \A e \in DOMAIN tool'.result.failed : tool'.result.failed[e] = 1
      ]_vars

\* a call with more events than one group holds has returned, with
\* deletions that succeeded and deletions that failed
C36_Witness ==
    /\ tool.name = "bulkCancelGoogleCalendarEvents" /\ tool.pc = "returned"
    /\ Len(request.eventIds) > batchSize
    /\ tool.result.successful # <<>>
    /\ tool.result.failed # <<>>


\* ------------------------------------------------------------------------
\* preview_appointments_for_cancellation
\* ------------------------------------------------------------------------
\* DocumentReference.set(data, {merge: true}) with data whose fields are
\* scalars and arrays: the fields of data replace the stored ones, the
\* other stored fields stay
MergeFlat(doc, data) ==
    [k \in DOMAIN doc \cup DOMAIN data \cup {"exists"} |->
        IF k = "exists" THEN TRUE
        ELSE IF k \in DOMAIN data THEN data[k] ELSE doc[k]]

\* the candidate list the assistant passes: title and time of appointments
CandidateLists ==
    { <<>>,
      <<[title |-> TitleSync, time |-> TimeA]>>,
      <<[title |-> TitleSync, time |-> TimeA], [title |-> TitleSyncUp, time |-> Null]>> }

PreviewCalls ==
    [date : {DateA}, appointments_to_cancel : CandidateLists,
     cancellation_type : {"all", "specific"}]

\* a response that asks for no confirmation
PreviewResponseWithoutConfirmation(details) ==
    [success |-> TRUE, requiresConfirmation |-> FALSE,
     operationType |-> "bulk_cancellation",
     appointmentCount |-> Len(details.appointments_to_cancel),
     date |-> details.date]

\* the response of the handler (the texts appointmentsList and message are
\* left out)
PreviewResponse(details) ==
    [success |-> TRUE, requiresConfirmation |-> TRUE,
     operationType |-> "bulk_cancellation",
     appointmentCount |-> Len(details.appointments_to_cancel),
     date |-> details.date]

previewAppointmentsForCancellation ==
    /\ ToolIdle
    /\ \E details \in PreviewCalls, setOk \in BOOLEAN :
          LET t == Entered("preview_appointments_for_cancellation", details, FALSE)
              data == [type |-> "bulk_cancellation", date |-> details.date,
                       appointments |-> details.appointments_to_cancel,
                       cancellationType |-> details.cancellation_type]
          IN IF setOk
             THEN /\ pendingOperations' = MergeFlat(pendingOperations, data)
                  /\ tool' = [t EXCEPT !.pc = "returned",
                                       !.result = PreviewResponse(details)]
             ELSE /\ UNCHANGED pendingOperations
                  /\ tool' = [t EXCEPT !.pc = "returned",
                                !.result = [success |-> FALSE,
                                            message |-> "Failed to preview appointments"]]
    /\ UNCHANGED <<appointments, partialAppointments, calendar, request, settings>>
    /\ UNCHANGED coreVars

\* the preview, and the bulk cancellation that follows a confirmation
NextPreview ==
    \/ previewAppointmentsForCancellation
    \/ BulkCommit
    \/ BulkCalendar

SpecPreview == InitCancel /\ [][NextPreview]_vars

PreviewName == "preview_appointments_for_cancellation"

\* C37: preview_appointments_for_cancellation changes no Appointment
\* record: it stores the PendingBulkCancellation with the date, the
\* candidate list and the cancellation type of the call and returns a
\* result that requires confirmation, or it fails and stores nothing.
C37_PreviewChangesNoAppointment ==
    [][ (ToolIdle /\ tool'.name = PreviewName) =>
           /\ UNCHANGED <<appointments, calendar, partialAppointments, settings>>
           /\ tool'.pc = "returned"
           /\ tool'.result.success =>
                 /\ tool'.result.requiresConfirmation
                 /\ pendingOperations'.exists
                 /\ pendingOperations'.type = "bulk_cancellation"
                 /\ pendingOperations'.date = tool'.details.date
                 /\ pendingOperations'.appointments = tool'.details.appointments_to_cancel
                 /\ pendingOperations'.cancellationType = tool'.details.cancellation_type
           /\ ~tool'.result.success => UNCHANGED pendingOperations
      ]_vars

\* a preview of two candidates has returned on a store whose appointments
\* are still scheduled
C37_Witness ==
    /\ tool.name = PreviewName /\ tool.pc = "returned" /\ tool.result.success
    /\ tool.result.appointmentCount = 2
    /\ pendingOperations.exists /\ Len(pendingOperations.appointments) = 2
    /\ Len(appointments) = 2
    /\ \A i \in 1..2 : appointments[i].status = "scheduled"


\* ------------------------------------------------------------------------
\* Reuse of the stored assistant
\* ------------------------------------------------------------------------
\* The assistant resolution of one request of each of two callers, on every
\* deployment, with remote and storage calls that may throw
InitAssistant ==
    \E a \in AssistantInits :
       InitWith("none", "none", a, OneRequest(Users),
                [latency |-> 0, maxCalls |-> 1, faults |-> TRUE])

NextAssistant ==
    \E u \in Users :
       \/ BeginTurn(u)
       \/ GetOrCreateAssistant(u)

SpecAssistant == InitAssistant /\ [][NextAssistant]_vars

\* the step of u is a call of getOrCreateAssistant
AssistantCall(u) == turn[u].pc = "assistant" /\ turn'[u].pc # "assistant"

\* the stored AssistantIdentity has the expected model and the call
\* retrieved the remote assistant with the expected model
Reusable(u) ==
    /\ configDoc.exists
    /\ configDoc.model = ExpectedModel
    /\ turn'[u].ga.remoteModelBefore = ExpectedModel

\* the call created and deleted nothing, stored nothing and returned the
\* stored id; the remote assistant is still there with its model
Reused(u) ==
    LET c == turn'[u].ga
    IN  /\ c.created = 0
        /\ c.delRequested = {}
        /\ c.persisted = 0
        /\ configDoc' = configDoc
        /\ ~c.failed
        /\ c.returned = configDoc.assistantId
        /\ turn'[u].assistantId = configDoc.assistantId
        /\ Len(remoteAssts') = Len(remoteAssts)
        /\ \A i \in 1..Len(remoteAssts) :
              /\ remoteAssts'[i].model = remoteAssts[i].model
              /\ remoteAssts'[i].deleted = remoteAssts[i].deleted

SyncedIffEvent(appointment) ==
    appointment.calendarSynced <=> appointment.googleCalendarEventId # NoEvent

\* the sync fields of the stored documents stay as they are
SyncFieldsKept ==
    /\ Len(appointments') >= Len(appointments)
    /\ \A i \in 1..Len(appointments) :
          /\ appointments'[i].calendarSynced = appointments[i].calendarSynced
          /\ appointments'[i].googleCalendarEventId = appointments[i].googleCalendarEventId

\* C39: in every reachable state an Appointment is marked synced
\* (calendarSynced) if and only if its googleCalendarEventId is set: a
\* creation leaves both unset or sets both in one update, and no later step,
\* a cancellation included, changes either field of a stored appointment.
C39_SyncedIffEventId ==
    /\ [](\A i \in 1..Len(appointments) : SyncedIffEvent(appointments[i]))
    /\ [][SyncFieldsKept]_vars

\* a synced appointment has been cancelled, its flag and event id kept,
\* next to a created appointment whose sync was attempted and failed
C39_Witness ==
    /\ tool.name \in {"cancel_appointment", BulkName} /\ tool.pc = "returned"
    /\ \E i \in 1..Len(appointments) :
          /\ appointments[i].status = "cancelled"
          /\ appointments[i].calendarSynced
          /\ appointments[i].googleCalendarEventId # NoEvent
    /\ \E i \in 1..Len(appointments) :
          /\ ~appointments[i].calendarSynced
          /\ appointments[i].googleCalendarEventId = NoEvent
          /\ appointments[i].calendarSyncError # NoError


\* ------------------------------------------------------------------------
\* set_availability
\* ------------------------------------------------------------------------
Weekdays == {"monday", "tuesday", "wednesday", "thursday", "friday", "saturday", "sunday"}

\* the null of a day without a schedule
NoSchedule == <<>>

\* a day as the tool schema allows it: start and end are both optional
DayValues == { [start |-> "09:00", end |-> "17:00"], [start |-> "10:00"] }

\* the days a call mentions
DaySets == { {}, {"monday"}, {"tuesday"}, {"monday", "tuesday"}, {"sunday"} }

\* the arguments of a call: the days it mentions, with their schedules
AvailabilityCalls == UNION { [S -> DayValues] : S \in DaySets }

\* details.<day> || null
DayOrNull(details, d) == IF d \in DOMAIN details THEN details[d] ELSE NoSchedule

\* the stored schedule of a day (a field the document lacks reads as
\* undefined)
StoredDay(doc, d) == IF d \in DOMAIN doc THEN doc[d] ELSE NoSchedule

\* DocumentReference.set(availabilityData, {merge: true}) on
\* settings/availability: a null replaces the stored day, a map is merged
\* key by key into a stored map (lastUpdated is left out)
MergeAvailability(doc, data) ==
    [k \in DOMAIN doc \cup Weekdays \cup {"exists"} |->
        IF k = "exists" THEN TRUE
        ELSE IF k \notin Weekdays THEN doc[k]
        ELSE IF data[k] = NoSchedule THEN NoSchedule
        ELSE IF StoredDay(doc, k) = NoSchedule THEN data[k]
        ELSE MergeMap(doc[k], data[k])]

setAvailability ==
    /\ ToolIdle
    /\ \E details \in AvailabilityCalls, setOk \in BOOLEAN :
          LET t == Entered("set_availability", details, FALSE)
              availabilityData == [d \in Weekdays |-> DayOrNull(details, d)]
          IN IF setOk
             THEN /\ settings' = MergeAvailability(settings, availabilityData)
                  /\ tool' = [t EXCEPT !.pc = "returned",
                                       !.result = [success |-> TRUE,
                                                   availability |-> availabilityData]]
             ELSE /\ UNCHANGED settings
                  /\ tool' = [t EXCEPT !.pc = "returned",
                                !.result = [success |-> FALSE,
                                            message |-> "Failed to set availability"]]
    /\ UNCHANGED <<appointments, partialAppointments, calendar, pendingOperations, request>>
    /\ UNCHANGED coreVars

\* a user without availability, or with Monday configured
InitAvailability ==
    /\ CoreAtRest
    /\ appointments = <<>>
    /\ calendar = {}
    /\ partialAppointments = NoDoc
    /\ pendingOperations = NoDoc
    /\ settings \in { NoDoc, [exists |-> TRUE, monday |-> [start |-> "09:00", end |-> "17:00"]] }
    /\ request = [accessToken |-> FALSE]
    /\ tool = IdleTool

SpecAvailability == InitAvailability /\ [][setAvailability]_vars

\* C40: after a successful set_availability the stored value of every
\* weekday is the value the call gave for that day, or null if the call
\* omitted the day.
C40_ReplacesWholeWeek ==
    (tool.name = "set_availability" /\ tool.pc = "returned" /\ tool.result.success) =>
        \A d \in Weekdays : StoredDay(settings, d) = DayOrNull(tool.details, d)

====
